---- MODULE Spec2Model ----
(***************************************************************************)
(* Verification model of the GPTIntegration servers.                       *)
(*                                                                         *)
(* The repository holds several independent Node.js servers.  Each is      *)
(* modelled as its own state machine over its own variables:               *)
(*   EnrichSpec  - the enrichment webhook server   (src/unnamed/part_004)  *)
(*   SecureSpec  - the secure Express server       (src/server-secure.js,  *)
(*                                                  src/middleware/security.js) *)
(*   IntegSpec   - the integration server          (src/unnamed/part_001)  *)
(*   NativeSpec  - the native CRM/probe server     (src/server-native.js)  *)
(*   ProbeSpec, InventorySpec, RoutingSpec - the native server's service   *)
(*                 probes, inventory routes and route dispatch             *)
(*   SecureApiSpec - the secure server's API-key, health and metrics routes *)
(*   ErrorsSpec  - the comprehensive error handler (security.js)           *)
(* A server's actions leave the other servers' variables unchanged.        *)
(***************************************************************************)
EXTENDS Integers, Sequences, FiniteSets, TLC

VARIABLES
    \* ---- enrichment server (src/unnamed/part_004) ----
    enrSecret,        \* WEBHOOK_SECRET
    enrGhlConfigured, \* GHL_API_KEY && GHL_LOCATION_ID
    enrProc,          \* "listening" | "crashed"
    enrNow,           \* Date.now(), in hours, while the run's requests are handled
    enrReq,           \* request id -> request record
    webhookStore,     \* const webhookStore = []
    enrichmentStore,  \* const enrichmentStore = []
    \* ---- secure server (src/server-secure.js, src/middleware/security.js) ----
    secSecret,        \* process.env.GHL_WEBHOOK_SECRET ("" when unset)
    secProc,          \* "starting" | "listening" | "exited0" | "exited1"
    secDb,            \* what became of connectMongoDB and connectRedis
    secShutdown,      \* gracefulShutdown: "idle" | "running" | "rejected"
    secReq,           \* request id -> request record
    \* ---- integration server (src/unnamed/part_001, lines 1-827) ----
    intGhlConfigured, \* ghlClient is not null (GHL_API_KEY set)
    intEnv,           \* process.env.NODE_ENV
    intProc,          \* "listening" | "closing" | "exited0"
    intFaulted,       \* an uncaught exception or unhandled rejection occurred
    intReq,           \* request id -> request record
    \* ---- native server (src/server-native.js) ----
    natGhlConfigured, \* GHL_API_KEY and GHL_LOCATION_ID are set
    natReq,           \* request id -> request record
    prbEnv,           \* names of the environment variables that are set
    prbReq,           \* request id -> record of a GET /api/test/... request
    invReq,           \* request id -> record of an /api/inventory/... request
    invInventory,     \* the object inventory, key -> item
    \* ---- secure server, /health, /metrics and /api/v1 ----
    apiKeys,          \* the set INTERNAL_API_KEY, EXTERNAL_API_KEY that are set
    apiReq,           \* request id -> request record
    \* ---- comprehensive error handler (src/middleware/security.js, lines 331-706) ----
    errEnv,           \* process.env.NODE_ENV
    errReq,           \* request id -> record of a request whose handler failed
    \* ---- native server, route dispatch and GET /api/ghl/contacts ----
    rteProc,          \* "listening" | "crashed"
    rteReq            \* request id -> record of a request by method and URL

enrVars == <<enrSecret, enrGhlConfigured, enrProc, enrNow, enrReq,
             webhookStore, enrichmentStore>>

secVars == <<secSecret, secProc, secDb, secShutdown, secReq>>

intVars == <<intGhlConfigured, intEnv, intProc, intFaulted, intReq>>

natVars == <<natGhlConfigured, natReq>>

prbVars == <<prbEnv, prbReq>>

invVars == <<invReq, invInventory>>

apiVars == <<apiKeys, apiReq>>

errVars == <<errEnv, errReq>>

rteVars == <<rteProc, rteReq>>

vars == <<enrSecret, enrGhlConfigured, enrProc, enrNow, enrReq,
          webhookStore, enrichmentStore,
          secSecret, secProc, secDb, secShutdown, secReq,
          intGhlConfigured, intEnv, intProc, intFaulted, intReq,
          natGhlConfigured, natReq,
          prbEnv, prbReq, invReq, invInventory, apiKeys, apiReq,
          errEnv, errReq,
          rteProc, rteReq>>

(***************************************************************************)
(* Bounds of the model.                                                    *)
(***************************************************************************)
MaxReq == 2          \* requests each server receives in a run

(***************************************************************************)
(* Strings, JSON texts and HMAC signatures.                                *)
(*                                                                         *)
(* A JSON text is a record: `valid` says whether JSON.parse accepts it,    *)
(* `canon` whether it is byte-for-byte what JSON.stringify would print for *)
(* its value (no insignificant whitespace, same key order and escapes),    *)
(* `value` the parsed value.  JSON.parse drops everything but the value,   *)
(* JSON.stringify always prints the canonical text.                        *)
(***************************************************************************)
JSONParseOk(text) == text.valid

JSONParse(text) == text.value

JSONStringify(value) == [valid |-> TRUE, canon |-> TRUE, value |-> value]

NotJson == [valid |-> FALSE, canon |-> FALSE, value |-> [raw |-> "<html>"]]

\* Length of a hex SHA-256 digest.
HexLen == 64

\* crypto.createHmac('sha256', secret).update(text).digest('hex'): a string of
\* HexLen characters determined by the secret and the text (no collisions on
\* the texts of the model).
Hmac(secret, text) == [len |-> HexLen, mac |-> <<secret, text>>]

\* Header values that are no digest of anything: one of digest length, one not.
JunkSig == [len |-> HexLen, mac |-> <<"junk", NotJson>>]

ShortSig == [len |-> 3, mac |-> <<"abc", NotJson>>]

\* An absent header (undefined): falsy, like the empty string.
NoHeader == [len |-> 0, mac |-> <<"", NotJson>>]

(***************************************************************************)
(* ENRICHMENT SERVER  (src/unnamed/part_004, lines 1-328)                  *)
(***************************************************************************)
\* process.env.WEBHOOK_SECRET || 'your-webhook-secret'
DefaultWebhookSecret == "your-webhook-secret"

EnrSecrets == {DefaultWebhookSecret, "s1"}

\* Webhook payloads: the fields processWebhook reads (type, the contact's id
\* and its customFields.enrichment_status / last_enrichment_date, in hours).
EnrValues ==
    { [type |-> "ContactCreate", id |-> "c1",
       enrichment_status |-> "none", last_enrichment_date |-> 0],
      [type |-> "ContactUpdate", id |-> "c1",
       enrichment_status |-> "enriched", last_enrichment_date |-> 0],
      [type |-> "OrderCreate", id |-> "o1",
       enrichment_status |-> "none", last_enrichment_date |-> 0] }

EnrBodies == {JSONStringify(v) : v \in EnrValues} \cup {NotJson}

\* x-ghl-signature header values a client may send with a body: none, the
\* digest of the body, the digest of another text.
EnrSignatures(body) ==
    {NoHeader, Hmac("s1", body), Hmac("s1", [body EXCEPT !.canon = ~@])}

\* Upstream (GoHighLevel) responses to the PUT of updateGHLContact.
UpstreamStatuses == {200, 500}

UpstreamTexts == {JSONStringify([ok |-> TRUE]), NotJson}

\* No value (a promise not resolved).
NoData == [none |-> TRUE]

EnrIdle ==
    [phase |-> "idle", path |-> "none", body |-> NotJson, sig |-> NoHeader,
     verified |-> "not called", processed |-> FALSE, status |-> 0,
     result |-> "none", success |-> FALSE,
     upOutcome |-> "none", upStatus |-> 0, upText |-> NotJson,
     upData |-> NoData]

\* A verifier that only checks that the header looks like a digest.
verifyWebhookSignatureShapeOnly(payload, signature) ==
    IF enrSecret = "" \/ enrSecret = DefaultWebhookSecret
    THEN TRUE
    ELSE Hmac(enrSecret, payload).len = signature.len

\* function verifyWebhookSignature(payload, signature)
verifyWebhookSignature(payload, signature) ==
    IF enrSecret = "" \/ enrSecret = DefaultWebhookSecret
    THEN TRUE
    ELSE Hmac(enrSecret, payload) = signature

\* webhookData.type === 'ContactCreate' || ... (processWebhook)
IsContactEvent(data) ==
    data.type \in {"ContactCreate", "ContactUpdate",
                   "contact.created", "contact.updated"}

\* "Skip if already enriched recently" (processWebhook)
RecentlyEnriched(contact, now) ==
    /\ contact.enrichment_status = "enriched"
    /\ (now - contact.last_enrichment_date) < 24

\* res.writeHead(status); res.end(...) of the webhook route
EnrRespond(q, status, success, result) ==
    [q EXCEPT !.phase = "done", !.status = status, !.success = success,
              !.result = result]

\* The other servers are separate processes: not running in this server's runs.
EnrOthers == UNCHANGED <<secVars, intVars, natVars, prbVars, invVars, apiVars, errVars, rteVars>>

EnrInit ==
    /\ enrSecret \in EnrSecrets
    /\ enrGhlConfigured \in BOOLEAN
    /\ enrProc = "listening"
    /\ enrNow \in {12, 36}
    /\ enrReq = [r \in 1..MaxReq |-> EnrIdle]
    /\ webhookStore = <<>>
    /\ enrichmentStore = <<>>

\* The enrichment server not started (runs of the other servers).
EnrOff ==
    /\ enrSecret = DefaultWebhookSecret
    /\ enrGhlConfigured = FALSE
    /\ enrProc = "off"
    /\ enrNow = 0
    /\ enrReq = [r \in 1..MaxReq |-> EnrIdle]
    /\ webhookStore = <<>>
    /\ enrichmentStore = <<>>

\* A request reaches http.createServer's handler: the routes before the
\* webhook route answer at once, the webhook route waits for the body.
EnrArrive(r, path, body, sig) ==
    /\ enrProc = "listening"
    /\ enrReq[r].phase = "idle"
    /\ \A s \in 1..(r - 1) : enrReq[s].phase # "idle"
    /\ path \in {"POST /api/webhooks/ghl", "GET /stats", "GET /unknown"}
    /\ path # "POST /api/webhooks/ghl" => (body = NotJson /\ sig = NoHeader)
    /\ enrReq' = [enrReq EXCEPT ![r] =
          IF path = "POST /api/webhooks/ghl"
          THEN [EnrIdle EXCEPT !.phase = "reading", !.path = path,
                               !.body = body, !.sig = sig]
          ELSE IF path = "GET /stats"
          THEN [EnrIdle EXCEPT !.phase = "done", !.path = path, !.status = 200]
          ELSE [EnrIdle EXCEPT !.phase = "done", !.path = path, !.status = 404]]
    /\ UNCHANGED <<enrSecret, enrGhlConfigured, enrProc, enrNow,
                   webhookStore, enrichmentStore>>
    /\ EnrOthers

\* req.on('end', async () => { ... }) of the webhook route, with the part of
\* processWebhook and updateGHLContact that runs before the upstream answers.
EnrEnd(r) ==
    LET q == enrReq[r]
        signature == q.sig
        present == signature # NoHeader
        ok == verifyWebhookSignature(q.body, signature)
        seen == [q EXCEPT !.verified = IF present THEN (IF ok THEN "true" ELSE "false")
                                       ELSE "not called"]
        data == JSONParse(q.body)
        stored == Append(webhookStore,
                         [type |-> data.type, id |-> data.id, received_at |-> enrNow])
        enriched == Append(enrichmentStore,
                           [contact_id |-> data.id, enriched_at |-> enrNow])
        run == [seen EXCEPT !.processed = TRUE]
    IN  /\ enrProc = "listening"
        /\ q.phase = "reading"
        /\ IF present /\ ~ok
           THEN /\ enrReq' = [enrReq EXCEPT ![r] = EnrRespond(seen, 401, FALSE, "none")]
                /\ UNCHANGED <<webhookStore, enrichmentStore>>
           ELSE IF ~JSONParseOk(q.body)
           THEN /\ enrReq' = [enrReq EXCEPT ![r] = EnrRespond(seen, 500, FALSE, "none")]
                /\ UNCHANGED <<webhookStore, enrichmentStore>>
           ELSE IF ~IsContactEvent(data)
           THEN /\ enrReq' = [enrReq EXCEPT ![r] = EnrRespond(run, 200, TRUE, "ignored")]
                /\ webhookStore' = stored
                /\ UNCHANGED enrichmentStore
           ELSE IF RecentlyEnriched(data, enrNow)
           THEN /\ enrReq' = [enrReq EXCEPT ![r] = EnrRespond(run, 200, TRUE, "skipped")]
                /\ webhookStore' = stored
                /\ UNCHANGED enrichmentStore
           ELSE /\ webhookStore' = stored
                /\ enrichmentStore' = enriched
                /\ enrReq' = [enrReq EXCEPT ![r] =
                      IF ~enrGhlConfigured
                      THEN EnrRespond(run, 200, TRUE, "success")
                      ELSE [run EXCEPT !.phase = "upstream", !.upOutcome = "pending"]]
        /\ UNCHANGED <<enrSecret, enrGhlConfigured, enrProc, enrNow>>
        /\ EnrOthers

\* updateGHLContact: res.on('end') of the PUT.  Status 200 resolves with
\* JSON.parse(data); JSON.parse throws inside the event callback, outside any
\* try and outside the promise executor, so the exception is uncaught and,
\* with no 'uncaughtException' listener in this server, ends the process.
\* Any other status rejects; processWebhook catches and reports 'error'.
updateGHLContactEnd(r, status, text) ==
    LET q == [enrReq[r] EXCEPT !.upStatus = status, !.upText = text]
    IN  /\ enrProc = "listening"
        /\ enrReq[r].phase = "upstream"
        /\ IF status = 200
           THEN IF JSONParseOk(text)
                THEN /\ enrReq' = [enrReq EXCEPT ![r] =
                           EnrRespond([q EXCEPT !.upOutcome = "resolved",
                                                 !.upData = JSONParse(text)],
                                      200, TRUE, "success")]
                     /\ UNCHANGED enrProc
                ELSE /\ enrReq' = [enrReq EXCEPT ![r] = [q EXCEPT !.upOutcome = "threw"]]
                     /\ enrProc' = "crashed"
           ELSE /\ enrReq' = [enrReq EXCEPT ![r] =
                      EnrRespond([q EXCEPT !.upOutcome = "rejected"],
                                 200, TRUE, "error")]
                /\ UNCHANGED enrProc
        /\ UNCHANGED <<enrSecret, enrGhlConfigured, enrNow,
                       webhookStore, enrichmentStore>>
        /\ EnrOthers

\* updateGHLContact: req.on('error', reject)
updateGHLContactError(r) ==
    /\ enrProc = "listening"
    /\ enrReq[r].phase = "upstream"
    /\ enrReq' = [enrReq EXCEPT ![r] =
          EnrRespond([enrReq[r] EXCEPT !.upOutcome = "rejected"],
                     200, TRUE, "error")]
    /\ UNCHANGED <<enrSecret, enrGhlConfigured, enrProc, enrNow,
                   webhookStore, enrichmentStore>>
    /\ EnrOthers

(***************************************************************************)
(* SECURE SERVER  (src/server-secure.js, src/middleware/security.js)       *)
(***************************************************************************)
\* Request-body strings are sequences of characters.
EscapedChars == {"'", "\"", ";", "\\"}

\* .replace(/(['";\\])/g, '\\$1')
RECURSIVE EscapeQuotes(_)
EscapeQuotes(str) ==
    IF str = <<>> THEN <<>>
    ELSE IF Head(str) \in EscapedChars
         THEN <<"\\", Head(str)>> \o EscapeQuotes(Tail(str))
         ELSE <<Head(str)>> \o EscapeQuotes(Tail(str))

\* .replace(/(\r\n|\n|\r)/gm, ' ')
RECURSIVE ReplaceNewlines(_)
ReplaceNewlines(str) ==
    IF str = <<>> THEN <<>>
    ELSE IF Head(str) \in {"\n", "\r"}
         THEN <<" ">> \o ReplaceNewlines(Tail(str))
         ELSE <<Head(str)>> \o ReplaceNewlines(Tail(str))

RECURSIVE TrimLeft(_)
TrimLeft(str) ==
    IF str # <<>> /\ Head(str) = " " THEN TrimLeft(Tail(str)) ELSE str

RECURSIVE TrimRight(_)
TrimRight(str) ==
    IF str # <<>> /\ str[Len(str)] = " "
    THEN TrimRight(SubSeq(str, 1, Len(str) - 1))
    ELSE str

\* .trim()
Trim(str) == TrimRight(TrimLeft(str))

\* "Limit string length"
MaxStringLength == 10000

\* sanitize of one string value.  The <script> removal matches nothing: no
\* string of the model holds '<'.
SanitizeString(str) ==
    LET cleaned == Trim(ReplaceNewlines(EscapeQuotes(str)))
    IN  IF Len(cleaned) > MaxStringLength
        THEN SubSeq(cleaned, 1, MaxStringLength)
        ELSE cleaned

\* sanitize(obj): every string field of the (flat) object, in place.
Sanitize(obj) == [k \in DOMAIN obj |-> SanitizeString(obj[k])]

\* Contact payloads GoHighLevel posts: the fields the handler reads.
CleanContact == [id |-> <<"c", "1">>, email |-> <<"a", "@", "b">>]

QuotedContact == [id |-> <<"c", "1">>, email |-> <<"o", "'", "b">>]

\* The raw request bodies: canonical JSON, the same value pretty-printed,
\* a value holding a quote, and a body that is no JSON.
SecCanonText == JSONStringify(CleanContact)

SecPrettyText == [valid |-> TRUE, canon |-> FALSE, value |-> CleanContact]

SecQuotedText == JSONStringify(QuotedContact)

\* What a request carries: raw body, the two signature headers, and whether
\* its Origin header is absent or allowed by configureCORS.
SecRequests ==
    LET In(raw, ghl, hook, origin) ==
            [raw |-> raw, ghl |-> ghl, hook |-> hook, originOk |-> origin]
        Expected(raw) == Hmac("s1", JSONStringify(Sanitize(JSONParse(raw))))
    IN  { In(SecCanonText, NoHeader, NoHeader, TRUE),
          In(SecCanonText, Hmac("s1", SecCanonText), NoHeader, TRUE),
          In(SecCanonText, NoHeader, Hmac("s1", SecCanonText), TRUE),
          In(SecCanonText, ShortSig, Hmac("s1", SecCanonText), TRUE),
          In(SecCanonText, Hmac("s1", SecPrettyText), NoHeader, TRUE),
          In(SecPrettyText, Hmac("s1", SecPrettyText), NoHeader, TRUE),
          In(SecPrettyText, Expected(SecPrettyText), NoHeader, TRUE),
          In(SecQuotedText, Hmac("s1", SecQuotedText), NoHeader, TRUE),
          In(NotJson, Hmac("s1", NotJson), NoHeader, TRUE),
          In(SecCanonText, Hmac("s1", SecCanonText), NoHeader, FALSE) }

SecIdle ==
    [phase |-> "idle", raw |-> NotJson, ghl |-> NoHeader, hook |-> NoHeader,
     body |-> NoData, verified |-> FALSE, handled |-> FALSE,
     status |-> 0, by |-> "none"]

\* A verifier that lets a request without signature header through.
verifyGHLWebhookOptionalSignature(ghl, hook, body) ==
    LET signature == IF ghl # NoHeader THEN ghl ELSE hook
        expectedSignature == Hmac(secSecret, JSONStringify(body))
    IN  IF secSecret = "" THEN [next |-> FALSE, status |-> 500]
        ELSE IF signature = NoHeader THEN [next |-> TRUE, status |-> 0]
        ELSE IF signature.len # expectedSignature.len
        THEN [next |-> FALSE, status |-> 500]
        ELSE IF signature # expectedSignature
        THEN [next |-> FALSE, status |-> 401]
        ELSE [next |-> TRUE, status |-> 0]

\* function verifyGHLWebhook(req, res, next): what it does with the headers
\* and req.body.  crypto.timingSafeEqual throws a RangeError when the two
\* buffers differ in byte length; the catch answers 500.
verifyGHLWebhook(ghl, hook, body) ==
    LET signature == IF ghl # NoHeader THEN ghl ELSE hook
        expectedSignature == Hmac(secSecret, JSONStringify(body))
    IN  IF secSecret = "" THEN [next |-> FALSE, status |-> 500]
        ELSE IF signature = NoHeader THEN [next |-> FALSE, status |-> 401]
        ELSE IF signature.len # expectedSignature.len
        THEN [next |-> FALSE, status |-> 500]
        ELSE IF signature # expectedSignature
        THEN [next |-> FALSE, status |-> 401]
        ELSE [next |-> TRUE, status |-> 0]

\* The enrichment, integration and native servers are separate processes.
SecOthers == UNCHANGED <<enrVars, intVars, natVars, prbVars, invVars, apiVars, errVars, rteVars>>

SecInit ==
    /\ secSecret \in {"", "s1"}
    /\ secProc = "starting"
    /\ secDb = [mongodb |-> "pending", redis |-> "pending"]
    /\ secShutdown = "idle"
    /\ secReq = [r \in 1..MaxReq |-> SecIdle]

\* The secure server not started (runs of the other servers).
SecOff ==
    /\ secSecret = ""
    /\ secProc = "off"
    /\ secDb = [mongodb |-> "pending", redis |-> "pending"]
    /\ secShutdown = "idle"
    /\ secReq = [r \in 1..MaxReq |-> SecIdle]

\* The event loop runs request callbacks between, not inside, the
\* synchronous run of a process event handler.
SecServing == secProc = "listening" /\ secShutdown # "running"

\* A connectMongoDB that logs a failure and returns.
connectMongoDBSwallow(ok) ==
    /\ secProc = "starting"
    /\ secDb.mongodb = "pending"
    /\ secDb' = [secDb EXCEPT !.mongodb = IF ok THEN "connected" ELSE "failed"]
    /\ UNCHANGED <<secSecret, secProc, secShutdown, secReq>>
    /\ SecOthers

\* async function connectMongoDB(), awaited first by startServer: it throws
\* when MONGODB_URI is unset or mongoClient.connect() rejects; the throw
\* reaches startServer's catch, which logs and calls process.exit(1).
connectMongoDB(ok) ==
    /\ secProc = "starting"
    /\ secDb.mongodb = "pending"
    /\ secDb' = [secDb EXCEPT !.mongodb = IF ok THEN "connected" ELSE "failed"]
    /\ secProc' = IF ok THEN secProc ELSE "exited1"
    /\ UNCHANGED <<secSecret, secShutdown, secReq>>
    /\ SecOthers

\* async function connectRedis(), awaited once connectMongoDB has returned:
\* it returns null with and without REDIS_URL and never throws.
connectRedis ==
    /\ secProc = "starting"
    /\ secDb.mongodb # "pending"
    /\ secDb.redis = "pending"
    /\ secDb' = [secDb EXCEPT !.redis = "done"]
    /\ UNCHANGED <<secSecret, secProc, secShutdown, secReq>>
    /\ SecOthers

\* async function startServer() after its two awaits: in production with
\* SSL_CERT and SSL_KEY set it reads the two files, and a failing
\* fs.readFileSync throws into the catch (process.exit(1)); otherwise
\* server.listen(PORT, ...) is called.
startServer(sslOk) ==
    /\ secProc = "starting"
    /\ secDb.redis = "done"
    /\ secProc' = IF sslOk THEN "listening" ELSE "exited1"
    /\ UNCHANGED <<secSecret, secDb, secShutdown, secReq>>
    /\ SecOthers

\* POST /webhook/contact.create reaches the app: helmet, then configureCORS
\* (an Origin that is not allowed goes to errorHandler: 500), then
\* express.json starts reading the body.
SecArrive(r, in) ==
    /\ SecServing
    /\ secReq[r].phase = "idle"
    /\ \A s \in 1..(r - 1) : secReq[s].phase # "idle"
    /\ secReq' = [secReq EXCEPT ![r] =
          IF in.originOk
          THEN [SecIdle EXCEPT !.phase = "parsing", !.raw = in.raw,
                               !.ghl = in.ghl, !.hook = in.hook]
          ELSE [SecIdle EXCEPT !.phase = "done", !.raw = in.raw,
                               !.ghl = in.ghl, !.hook = in.hook,
                               !.status = 500, !.by = "cors"]]
    /\ UNCHANGED <<secSecret, secDb, secProc, secShutdown>>
    /\ SecOthers

\* The body has been read: express.json parses it (a body that is no JSON
\* goes to errorHandler with status 400), requestLoggingMiddleware,
\* sanitizeInput rewrites req.body, verifyGHLWebhook answers or calls next().
SecBodyRead(r) ==
    LET q == secReq[r]
        body == Sanitize(JSONParse(q.raw))
        v == verifyGHLWebhook(q.ghl, q.hook, body)
    IN  /\ SecServing
        /\ q.phase = "parsing"
        /\ secReq' = [secReq EXCEPT ![r] =
              IF ~JSONParseOk(q.raw)
              THEN [q EXCEPT !.phase = "done", !.status = 400, !.by = "json"]
              ELSE IF v.next
              THEN [q EXCEPT !.phase = "limiter", !.body = body, !.verified = TRUE]
              ELSE [q EXCEPT !.phase = "done", !.body = body,
                             !.status = v.status, !.by = "verify"]]
        /\ UNCHANGED <<secSecret, secDb, secProc, secShutdown>>
        /\ SecOthers

\* createRateLimiter({ max: 1000 }): over the limit (as the store counts this
\* client's requests) it answers 429, otherwise next() runs the route's
\* handler, which logs and answers res.json({ success: true, ... }).
SecRateLimiter(r, overLimit) ==
    LET q == secReq[r]
    IN  /\ SecServing
        /\ q.phase = "limiter"
        /\ secReq' = [secReq EXCEPT ![r] =
              IF overLimit
              THEN [q EXCEPT !.phase = "done", !.status = 429, !.by = "limiter"]
              ELSE [q EXCEPT !.phase = "done", !.status = 200, !.by = "handler",
                             !.handled = TRUE]]
        /\ UNCHANGED <<secSecret, secDb, secProc, secShutdown>>
        /\ SecOthers

\* process.on('SIGTERM' | 'SIGINT' | 'uncaughtException', ...): the listener
\* calls gracefulShutdown(signal).
SecSignal(signal) ==
    /\ secProc = "listening"
    /\ secShutdown # "running"
    /\ signal \in {"SIGTERM", "SIGINT", "uncaughtException"}
    /\ secShutdown' = "running"
    /\ UNCHANGED <<secSecret, secDb, secProc, secReq>>
    /\ SecOthers

\* Whether the identifier `server` is bound where gracefulShutdown runs:
\* server-secure.js declares it with `let` inside startServer's try block
\* only, so at module scope it is not.
ServerInScope == FALSE

\* async function gracefulShutdown(signal): server.close(...) is its first
\* statement after the log line.  With `server` unbound it throws a
\* ReferenceError, so the async function's promise rejects and nothing else
\* of the function runs.  (With it bound: stop accepting, disconnect and
\* shutdown - both caught when missing - then process.exit(0).)
gracefulShutdown ==
    /\ secProc = "listening"
    /\ secShutdown = "running"
    /\ IF ServerInScope
       THEN secProc' = "exited0" /\ secShutdown' = "idle"
       ELSE secProc' = secProc /\ secShutdown' = "rejected"
    /\ UNCHANGED <<secSecret, secDb, secReq>>
    /\ SecOthers

\* process.on('unhandledRejection', ...): nobody awaits gracefulShutdown's
\* promise, so its rejection is unhandled; the listener logs and calls
\* gracefulShutdown('unhandledRejection').
SecUnhandledRejection ==
    /\ secProc = "listening"
    /\ secShutdown = "rejected"
    /\ secShutdown' = "running"
    /\ UNCHANGED <<secSecret, secDb, secProc, secReq>>
    /\ SecOthers

SecNext ==
    \/ \E ok \in BOOLEAN : connectMongoDB(ok)
    \/ connectRedis
    \/ \E sslOk \in BOOLEAN : startServer(sslOk)
    \/ \E r \in 1..MaxReq, in \in SecRequests : SecArrive(r, in)
    \/ \E r \in 1..MaxReq : SecBodyRead(r)
    \/ \E r \in 1..MaxReq, overLimit \in BOOLEAN : SecRateLimiter(r, overLimit)
    \/ \E signal \in {"SIGTERM", "SIGINT", "uncaughtException"} : SecSignal(signal)
    \/ gracefulShutdown
    \/ SecUnhandledRejection

(***************************************************************************)
(* INTEGRATION SERVER  (src/unnamed/part_001, lines 1-827)                 *)
(***************************************************************************)
\* What GoHighLevel may answer to GHLClient.makeRequest.
IntResponses ==
    { [status |-> 200, text |-> JSONStringify([contacts |-> <<"c1">>])],
      [status |-> 401, text |-> JSONStringify([msg |-> "Unauthorized"])],
      [status |-> 502, text |-> NotJson] }

IntIdle ==
    [phase |-> "idle", path |-> "none", timeoutArmed |-> FALSE,
     upStatus |-> 0, upData |-> NoData, status |-> 0, success |-> FALSE,
     afterFault |-> FALSE, errorMessage |-> FALSE]

IntOthers == UNCHANGED <<enrVars, secVars, natVars, prbVars, invVars, apiVars, errVars, rteVars>>

IntInit ==
    /\ intGhlConfigured \in BOOLEAN
    /\ intEnv \in { "production", "development" }
    /\ intProc = "listening"
    /\ intFaulted = FALSE
    /\ intReq = [r \in 1..MaxReq |-> IntIdle]

\* The integration server not started (runs of the other servers).
IntOff ==
    /\ intGhlConfigured = FALSE
    /\ intEnv = "off"
    /\ intProc = "off"
    /\ intFaulted = FALSE
    /\ intReq = [r \in 1..MaxReq |-> IntIdle]

\* res.writeHead(status, ...); res.end(JSON.stringify({ success, ... }))
IntRespond(q, status, success) ==
    [q EXCEPT !.phase = "done", !.status = status, !.success = success,
              !.afterFault = intFaulted]

\* process.on('uncaughtException') and process.on('unhandledRejection'):
\* the listeners only log.  What the process is after a fault.
IntAfterFault == "listening"

\* http.createServer(async (req, res) => ...).  url.parse(req.url, true) runs
\* before the try block: for a request target whose userinfo cannot be
\* decoded it throws a URIError, the handler's promise rejects, nothing
\* answers the request and the 'unhandledRejection' listener runs.
\* Otherwise the route is taken: /health and unknown paths answer at once,
\* /api/ghl/contacts answers 500 without a client or calls
\* ghlClient.getContacts, whose makeRequest sets no timeout on its request,
\* POST /api/inventory waits for the request body (parseBody).
IntArrive(r, path) ==
    /\ intProc = "listening"
    /\ intReq[r].phase = "idle"
    /\ \A s \in 1..(r - 1) : intReq[s].phase # "idle"
    /\ LET q == [IntIdle EXCEPT !.path = path]
       IN  IF path = "http://%E0%A4%A@host/"
           THEN /\ intReq' = [intReq EXCEPT ![r] = [q EXCEPT !.phase = "abandoned"]]
                /\ intFaulted' = TRUE
                /\ intProc' = IntAfterFault
           ELSE /\ intReq' = [intReq EXCEPT ![r] =
                      IF path = "/health" THEN IntRespond(q, 200, TRUE)
                      ELSE IF path = "/unknown" THEN IntRespond(q, 404, FALSE)
                      ELSE IF path = "/api/inventory" THEN [q EXCEPT !.phase = "body"]
                      ELSE IF ~intGhlConfigured THEN IntRespond(q, 500, FALSE)
                      ELSE [q EXCEPT !.phase = "upstream"]]
                /\ UNCHANGED <<intFaulted, intProc>>
    /\ UNCHANGED <<intGhlConfigured, intEnv>>
    /\ IntOthers

\* GHLClient.makeRequest: res.on('end') resolves with the parsed body, or
\* with { error: 'Invalid response', raw: data } when it is no JSON; the
\* status code is not looked at.  The contacts route then answers 200 with
\* data.contacts || [].
GHLClientMakeRequestEnd(r, resp) ==
    LET data == IF JSONParseOk(resp.text) THEN JSONParse(resp.text)
                ELSE [error |-> "Invalid response", raw |-> resp.text]
        q == [intReq[r] EXCEPT !.upStatus = resp.status, !.upData = data]
    IN  /\ intProc \in {"listening", "closing"}
        /\ intReq[r].phase = "upstream"
        /\ intReq' = [intReq EXCEPT ![r] = IntRespond(q, 200, TRUE)]
        /\ UNCHANGED <<intGhlConfigured, intEnv, intProc, intFaulted>>
        /\ IntOthers

\* GHLClient.makeRequest: req.on('error', reject); the route's catch
\* answers 500 { success: false, error: error.message }.
GHLClientMakeRequestError(r) ==
    /\ intProc \in {"listening", "closing"}
    /\ intReq[r].phase = "upstream"
    /\ intReq' = [intReq EXCEPT ![r] =
          [IntRespond(intReq[r], 500, FALSE) EXCEPT !.errorMessage = TRUE]]
    /\ UNCHANGED <<intGhlConfigured, intEnv, intProc, intFaulted>>
    /\ IntOthers

\* The bodies of POST /api/inventory: whether the text is JSON, and what
\* its sku and category properties are.
IntInventoryBodies ==
    { [json |-> FALSE, sku |-> "absent", category |-> "absent"],
      [json |-> TRUE, sku |-> "absent", category |-> "absent"],
      [json |-> TRUE, sku |-> "string", category |-> "absent"],
      [json |-> TRUE, sku |-> "number", category |-> "absent"],
      [json |-> TRUE, sku |-> "absent", category |-> "number"] }

\* async function parseBody(req): {} when the body is no JSON.
parseBody(body) ==
    IF body.json THEN body
    ELSE [json |-> TRUE, sku |-> "absent", category |-> "absent"]

\* POST /api/inventory after parseBody resolved: sku.toUpperCase() and
\* category.toUpperCase() throw a TypeError for a number; the throw is
\* inside the handler's try, and the catch at the end of the handler
\* answers 500 { success: false, error: 'Internal server error',
\* message: error.message }, whatever NODE_ENV is.
IntInventoryEnd(r, text) ==
    LET body == parseBody(text)
        throws == \/ body.sku = "number"
                  \/ body.sku = "absent" /\ body.category = "number"
    IN  /\ intProc \in {"listening", "closing"}
        /\ intReq[r].phase = "body"
        /\ intReq' = [intReq EXCEPT ![r] =
              IF throws
              THEN [IntRespond(intReq[r], 500, FALSE) EXCEPT !.errorMessage = TRUE]
              ELSE IntRespond(intReq[r], 200, TRUE)]
        /\ UNCHANGED <<intGhlConfigured, intEnv, intProc, intFaulted>>
        /\ IntOthers

\* process.on('SIGTERM'): server.close(...) stops accepting connections.
IntSigterm ==
    /\ intProc = "listening"
    /\ intProc' = "closing"
    /\ UNCHANGED <<intGhlConfigured, intEnv, intFaulted, intReq>>
    /\ IntOthers

\* server.close's callback, once no connection is open: process.exit(0).
IntClosed ==
    /\ intProc = "closing"
    /\ \A r \in 1..MaxReq : intReq[r].phase \in {"idle", "done"}
    /\ intProc' = "exited0"
    /\ UNCHANGED <<intGhlConfigured, intEnv, intFaulted, intReq>>
    /\ IntOthers

IntNext ==
    \/ \E r \in 1..MaxReq :
          \E path \in {"/health", "/unknown", "/api/ghl/contacts",
                       "/api/inventory", "http://%E0%A4%A@host/"} :
             IntArrive(r, path)
    \/ \E r \in 1..MaxReq, text \in IntInventoryBodies : IntInventoryEnd(r, text)
    \/ \E r \in 1..MaxReq, resp \in IntResponses : GHLClientMakeRequestEnd(r, resp)
    \/ \E r \in 1..MaxReq : GHLClientMakeRequestError(r)
    \/ IntSigterm
    \/ IntClosed

(***************************************************************************)
(* NATIVE SERVER  (src/server-native.js)                                   *)
(***************************************************************************)
\* What GoHighLevel may answer to makeHttpsRequest.
NatResponses ==
    { [status |-> 200, text |-> JSONStringify([total |-> 1])],
      [status |-> 200, text |-> NotJson],
      [status |-> 404, text |-> JSONStringify([msg |-> "Not found"])] }

\* The handlers that call GoHighLevel.
CrmRoutes ==
    { "GET /api/ghl/contacts", "POST /api/ghl/contacts",
      "GET /api/ghl/opportunities", "GET /api/ghl/tasks",
      "GET /api/ghl/stats" }

NatRoutes == CrmRoutes \cup { "GET /health", "GET /unknown" }

\* Bodies of POST /api/ghl/contacts: no JSON, neither email nor phone, email,
\* phone.
NatPostBodies == { "{", "{}", "{email}", "{phone}" }

NoCall ==
    [state |-> "none", timeoutArmed |-> FALSE, status |-> 0,
     data |-> NoData, success |-> FALSE, error |-> "none"]

\* makeHttpsRequest after req.end(): req.setTimeout(timeout, ...) is set.
PendingCall == [NoCall EXCEPT !.state = "pending", !.timeoutArmed = TRUE]

NatIdle ==
    [phase |-> "idle", route |-> "none", body |-> "none",
     calls |-> <<NoCall, NoCall>>,
     status |-> 0, success |-> FALSE, endpoints |-> FALSE]

NatOthers == UNCHANGED <<enrVars, secVars, intVars, prbVars, invVars, apiVars, errVars, rteVars>>

NatInit ==
    /\ natGhlConfigured \in BOOLEAN
    /\ natReq = [r \in 1..MaxReq |-> NatIdle]

\* The native server not started (runs of the other servers).
NatOff ==
    /\ natGhlConfigured = FALSE
    /\ natReq = [r \in 1..MaxReq |-> [NatIdle EXCEPT !.phase = "off"]]

\* res.writeHead(status); res.end(JSON.stringify({ success, ... }))
NatRespond(q, status, success) ==
    [q EXCEPT !.phase = "done", !.status = status, !.success = success]

\* makeGHLRequest on a response of makeHttpsRequest: success for 2xx only.
makeGHLRequestSuccess(status) == status >= 200 /\ status < 300

\* The rest of a handler once its awaited makeGHLRequest calls returned.
\* contacts (GET, POST), opportunities, tasks: 200 success on result.success
\* and 500 with the failure result otherwise.  stats: the two results only
\* fill the counters; the answer is 200 { success: true } in every case.
NatHandlerContinue(q) ==
    IF q.route = "GET /api/ghl/stats" THEN NatRespond(q, 200, TRUE)
    ELSE IF q.calls[1].success THEN NatRespond(q, 200, TRUE)
    ELSE NatRespond(q, 500, FALSE)

\* A call of the request settled with record call: the handler goes on when
\* no call it awaits is pending.
NatSettle(r, c, call) ==
    LET q == [natReq[r] EXCEPT !.calls[c] = call]
    IN  natReq' = [natReq EXCEPT ![r] =
            IF \E d \in 1..2 : q.calls[d].state = "pending"
            THEN q ELSE NatHandlerContinue(q)]

\* The request listener for the GET handlers and the 404 fallthrough.
\* makeGHLRequest throws without GHL_API_KEY / GHL_LOCATION_ID and the
\* handler's catch answers 500; POST /api/ghl/contacts first reads its body.
NatArrive(r, route) ==
    /\ natReq[r].phase = "idle"
    /\ \A s \in 1..(r - 1) : natReq[s].phase # "idle"
    /\ LET q == [NatIdle EXCEPT !.route = route]
       IN  natReq' = [natReq EXCEPT ![r] =
             IF route = "GET /health"
             THEN [NatRespond(q, 200, FALSE) EXCEPT !.endpoints = TRUE]
             ELSE IF route = "GET /unknown" THEN NatRespond(q, 404, FALSE)
             ELSE IF route = "POST /api/ghl/contacts"
             THEN [q EXCEPT !.phase = "reading"]
             ELSE IF ~natGhlConfigured THEN NatRespond(q, 500, FALSE)
             ELSE IF route = "GET /api/ghl/stats"
             THEN [q EXCEPT !.phase = "upstream",
                            !.calls = <<PendingCall, PendingCall>>]
             ELSE [q EXCEPT !.phase = "upstream",
                            !.calls = <<PendingCall, NoCall>>]]
    /\ UNCHANGED natGhlConfigured
    /\ NatOthers

\* POST /api/ghl/contacts answering before it has looked at the body's
\* email and phone.
NatPostEndCallFirst(r, body) ==
    /\ natReq[r].phase = "reading"
    /\ natReq' = [natReq EXCEPT ![r] =
          IF body = "{" \/ ~natGhlConfigured
          THEN NatRespond([@ EXCEPT !.body = body], 400, FALSE)
          ELSE [@ EXCEPT !.phase = "upstream", !.body = body,
                         !.calls = <<PendingCall, NoCall>>]]
    /\ UNCHANGED natGhlConfigured
    /\ NatOthers

\* POST /api/ghl/contacts, req.on('end'): JSON.parse failure, a body with
\* neither email nor phone and a throwing makeGHLRequest all answer 400.
NatPostEnd(r, body) ==
    /\ natReq[r].phase = "reading"
    /\ natReq' = [natReq EXCEPT ![r] =
          IF body \notin {"{email}", "{phone}"} \/ ~natGhlConfigured
          THEN NatRespond([@ EXCEPT !.body = body], 400, FALSE)
          ELSE [@ EXCEPT !.phase = "upstream", !.body = body,
                         !.calls = <<PendingCall, NoCall>>]]
    /\ UNCHANGED natGhlConfigured
    /\ NatOthers

\* makeHttpsRequest, res.on('end'): resolves { status, data } with the parsed
\* body, or the raw text when it is no JSON; makeGHLRequest turns it into
\* { success: true, data } for 2xx and { success: false, error } otherwise.
makeHttpsRequestEnd(r, c, resp) ==
    /\ natReq[r].phase = "upstream"
    /\ natReq[r].calls[c].state = "pending"
    /\ NatSettle(r, c,
          [natReq[r].calls[c] EXCEPT
              !.state = "resolved", !.status = resp.status,
              !.data = IF JSONParseOk(resp.text) THEN JSONParse(resp.text)
                       ELSE resp.text,
              !.success = makeGHLRequestSuccess(resp.status),
              !.error = IF makeGHLRequestSuccess(resp.status) THEN "none"
                        ELSE "GHL API error"])
    /\ UNCHANGED natGhlConfigured
    /\ NatOthers

\* makeHttpsRequest, req.on('error', reject): makeGHLRequest's catch returns
\* { success: false, error: 'GHL request failed: ...' }.
makeHttpsRequestError(r, c) ==
    /\ natReq[r].phase = "upstream"
    /\ natReq[r].calls[c].state = "pending"
    /\ NatSettle(r, c, [natReq[r].calls[c] EXCEPT
                           !.state = "rejected", !.error = "socket error"])
    /\ UNCHANGED natGhlConfigured
    /\ NatOthers

\* makeHttpsRequest, req.setTimeout callback: req.destroy() and
\* reject(new Error('Request timeout')).
makeHttpsRequestTimeout(r, c) ==
    /\ natReq[r].phase = "upstream"
    /\ natReq[r].calls[c].state = "pending"
    /\ natReq[r].calls[c].timeoutArmed
    /\ NatSettle(r, c, [natReq[r].calls[c] EXCEPT
                           !.state = "rejected", !.error = "Request timeout"])
    /\ UNCHANGED natGhlConfigured
    /\ NatOthers

NatNext ==
    \/ \E r \in 1..MaxReq, route \in NatRoutes : NatArrive(r, route)
    \/ \E r \in 1..MaxReq, body \in NatPostBodies : NatPostEnd(r, body)
    \/ \E r \in 1..MaxReq, c \in 1..2, resp \in NatResponses :
          makeHttpsRequestEnd(r, c, resp)
    \/ \E r \in 1..MaxReq, c \in 1..2 : makeHttpsRequestError(r, c)
    \/ \E r \in 1..MaxReq, c \in 1..2 : makeHttpsRequestTimeout(r, c)

(***************************************************************************)
(* NATIVE SERVER, integration test endpoints  (src/server-native.js)       *)
(*                                                                         *)
(* A request URL is the sequence of its parts: "/" separators, the path    *)
(* segments between them and, last, the query string with its "?".         *)
(***************************************************************************)
EnvAll ==
    { "MONGODB_URI", "GHL_API_KEY", "GHL_LOCATION_ID", "OPENAI_API_KEY",
      "ANTHROPIC_API_KEY", "PINECONE_API_KEY", "WC_CONSUMER_KEY",
      "WC_CONSUMER_SECRET" }

\* The environments of the model: everything set, nothing set, one of a
\* probe's two values missing, only the alternative Anthropic key set.
PrbEnvs ==
    { EnvAll, {}, EnvAll \ {"GHL_LOCATION_ID"}, EnvAll \ {"WC_CONSUMER_SECRET"},
      {"CLAUDE_API_KEY"} }

\* The cases of the switch in the test endpoint.
Services == { "mongodb", "ghl", "openai", "anthropic", "pinecone", "woocommerce" }

QueryStrings == { "?verbose=1" }

TestPrefix == <<"/", "api", "/", "test", "/">>

PrbUrls ==
    { TestPrefix \o <<n>> : n \in Services \cup {"bogus"} }
        \cup { TestPrefix \o <<"ghl", "?verbose=1">>, TestPrefix \o <<"ghl", "/">> }

\* req.url.split('/').pop(): what follows the last "/" of the URL, the query
\* string included.
SplitPop(url) ==
    LET slashes == { i \in DOMAIN url : url[i] = "/" }
        last == IF slashes = {} THEN 0
                ELSE CHOOSE i \in slashes : \A j \in slashes : j <= i
    IN  SubSeq(url, last + 1, Len(url))

\* The pathname of a URL: the URL without its query string.
Pathname(url) == SelectSeq(url, LAMBDA part : part \notin QueryStrings)

\* Response bodies of the probed services: an object that has what the probe
\* reads (the Pinecone index included), an empty object, and null.
PrbObject == [null |-> FALSE, indexes |-> {"innovativebiosci-rag"}]

PrbEmptyObject == [null |-> FALSE, indexes |-> {}]

PrbNull == [null |-> TRUE, indexes |-> {}]

PrbResponses ==
    { [status |-> 200, text |-> JSONStringify(PrbObject)],
      [status |-> 200, text |-> JSONStringify(PrbEmptyObject)],
      [status |-> 200, text |-> JSONStringify(PrbNull)],
      [status |-> 200, text |-> NotJson],
      [status |-> 401, text |-> JSONStringify(PrbEmptyObject)],
      [status |-> 500, text |-> NotJson] }

PrbIdle ==
    [phase |-> "idle", url |-> <<>>, service |-> <<>>, dispatched |-> "none",
     step |-> 0, calls |-> 0, timeoutArmed |-> FALSE,
     status |-> 0, success |-> FALSE, hasData |-> FALSE, hasError |-> FALSE,
     error |-> "none", caught |-> FALSE]

PrbOthers == UNCHANGED <<enrVars, secVars, intVars, natVars, invVars, apiVars, errVars, rteVars>>

PrbInit ==
    /\ prbEnv \in PrbEnvs
    /\ prbReq = [r \in 1..MaxReq |-> PrbIdle]

\* The native server not started (runs of the other servers).
PrbOff ==
    /\ prbEnv = {}
    /\ prbReq = [r \in 1..MaxReq |-> [PrbIdle EXCEPT !.phase = "off"]]

\* The configuration test at the head of each probe: testMongoDB,
\* testGoHighLevel, testOpenAI, testAnthropic, testPinecone, testWooCommerce.
ProbeConfiguredKeyOnly(name, env) ==
    CASE name = "mongodb"     -> "MONGODB_URI" \in env
      [] name = "ghl"         -> "GHL_API_KEY" \in env
      [] name = "openai"      -> "OPENAI_API_KEY" \in env
      [] name = "anthropic"   -> "ANTHROPIC_API_KEY" \in env
      [] name = "pinecone"    -> "PINECONE_API_KEY" \in env
      [] name = "woocommerce" -> "WC_CONSUMER_KEY" \in env

ProbeConfigured(name, env) ==
    CASE name = "mongodb"     -> "MONGODB_URI" \in env
      [] name = "ghl"         -> "GHL_API_KEY" \in env /\ "GHL_LOCATION_ID" \in env
      [] name = "openai"      -> "OPENAI_API_KEY" \in env
      [] name = "anthropic"   -> "ANTHROPIC_API_KEY" \in env \/ "CLAUDE_API_KEY" \in env
      [] name = "pinecone"    -> "PINECONE_API_KEY" \in env
      [] name = "woocommerce" -> "WC_CONSUMER_KEY" \in env /\ "WC_CONSUMER_SECRET" \in env

\* The dispatcher's answer to a probe result: 200 for success, 500 otherwise,
\* with the result's fields spread into the body.
ProbeOk(q) ==
    [q EXCEPT !.phase = "done", !.status = 200, !.success = TRUE,
              !.hasData = TRUE, !.hasError = FALSE, !.error = "none"]

ProbeFail(q, error) ==
    [q EXCEPT !.phase = "done", !.status = 500, !.success = FALSE,
              !.hasData = FALSE, !.hasError = TRUE, !.error = error]

\* An exception that leaves the probe: the dispatcher's catch answers 500
\* { service, success: false, error: error.message }.
ProbeCatchRethrow(q, error) ==
    [ProbeFail(q, error) EXCEPT !.caught = TRUE]

\* The catch block of a probe: return { success: false, error: '...
\* connection error: ' + error.message }.
ProbeCatch(q, error) == ProbeFail(q, error)

\* await makeHttpsRequest({ ..., timeout }): one more network request.
ProbeCall(q, step) ==
    [q EXCEPT !.phase = "upstream", !.step = step, !.calls = @ + 1,
              !.timeoutArmed = TRUE]

\* Reading a property of response.data throws a TypeError when the body was
\* the JSON text null; a raw text or an object only yields undefined.
ReadThrows(text) == JSONParseOk(text) /\ JSONParse(text).null

\* A probe after the response to its request number q.step.
ProbeAfterResponse(q, resp) ==
    LET name == q.dispatched
        indexes == IF JSONParseOk(resp.text) THEN JSONParse(resp.text).indexes
                   ELSE {}
    IN  IF name \in {"ghl", "openai", "anthropic"}
        THEN IF resp.status # 200 THEN ProbeFail(q, "API error")
             ELSE IF ReadThrows(resp.text) THEN ProbeCatch(q, "connection error")
             ELSE ProbeOk(q)
        ELSE IF name = "pinecone"
        THEN IF q.step = 2 THEN ProbeOk(q)
             ELSE IF resp.status # 200 THEN ProbeFail(q, "API error")
             ELSE IF ReadThrows(resp.text) THEN ProbeCatch(q, "connection error")
             ELSE IF "innovativebiosci-rag" \in indexes THEN ProbeCall(q, 2)
             ELSE ProbeFail(q, "index not found")
        ELSE \* woocommerce
             IF q.step = 2
             THEN IF resp.status = 200 THEN ProbeOk(q)
                  ELSE ProbeFail(q, "API error")
             ELSE IF resp.status = 200
             THEN IF ReadThrows(resp.text) THEN ProbeCatch(q, "connection error")
                  ELSE ProbeOk(q)
             ELSE IF resp.status = 401 THEN ProbeFail(q, "authentication failed")
             ELSE ProbeCall(q, 2)

\* if (req.url.startsWith('/api/test/') && req.method === 'GET'): the switch
\* on req.url.split('/').pop() and the head of the probe it selects.
PrbArrive(r, url) ==
    /\ prbReq[r].phase = "idle"
    /\ \A s \in 1..(r - 1) : prbReq[s].phase # "idle"
    /\ LET service == SplitPop(url)
           known == \E n \in Services : service = <<n>>
           name == IF known THEN service[1] ELSE "none"
           q == [PrbIdle EXCEPT !.url = url, !.service = service,
                                !.dispatched = name]
       IN  prbReq' = [prbReq EXCEPT ![r] =
              IF ~known THEN ProbeFail(q, "Unknown service")
              ELSE IF ~ProbeConfigured(name, prbEnv)
              THEN ProbeFail(q, "not configured")
              ELSE IF name = "mongodb" THEN ProbeOk(q)
              ELSE ProbeCall(q, 1)]
    /\ UNCHANGED prbEnv
    /\ PrbOthers

\* makeHttpsRequest, res.on('end'), for a probe's request.
PrbResponse(r, resp) ==
    /\ prbReq[r].phase = "upstream"
    /\ prbReq' = [prbReq EXCEPT ![r] = ProbeAfterResponse(@, resp)]
    /\ UNCHANGED prbEnv
    /\ PrbOthers

\* makeHttpsRequest, req.on('error', reject): the probe's catch.
PrbError(r) ==
    /\ prbReq[r].phase = "upstream"
    /\ prbReq' = [prbReq EXCEPT ![r] = ProbeCatch(@, "connection error")]
    /\ UNCHANGED prbEnv
    /\ PrbOthers

\* makeHttpsRequest, req.setTimeout callback: reject(new Error('Request
\* timeout')), the probe's catch.
PrbTimeout(r) ==
    /\ prbReq[r].phase = "upstream"
    /\ prbReq[r].timeoutArmed
    /\ prbReq' = [prbReq EXCEPT ![r] = ProbeCatch(@, "connection error")]
    /\ UNCHANGED prbEnv
    /\ PrbOthers

PrbNext ==
    \/ \E r \in 1..MaxReq, url \in PrbUrls : PrbArrive(r, url)
    \/ \E r \in 1..MaxReq, resp \in PrbResponses : PrbResponse(r, resp)
    \/ \E r \in 1..MaxReq : PrbError(r)
    \/ \E r \in 1..MaxReq : PrbTimeout(r)

(***************************************************************************)
(* NATIVE SERVER, inventory endpoints  (src/server-native.js)              *)
(*                                                                         *)
(* Here a string is the sequence of its characters.                        *)
(***************************************************************************)
LowerCase ==
    <<"a", "b", "c", "d", "e", "f", "g", "h", "i", "j", "k", "l", "m",
      "n", "o", "p", "q", "r", "s", "t", "u", "v", "w", "x", "y", "z">>

UpperCase ==
    <<"A", "B", "C", "D", "E", "F", "G", "H", "I", "J", "K", "L", "M",
      "N", "O", "P", "Q", "R", "S", "T", "U", "V", "W", "X", "Y", "Z">>

\* String.prototype.toUpperCase
ToUpperCase(str) ==
    [i \in DOMAIN str |->
        IF \E k \in DOMAIN LowerCase : LowerCase[k] = str[i]
        THEN UpperCase[CHOOSE k \in DOMAIN LowerCase : LowerCase[k] = str[i]]
        ELSE str[i]]

\* const inventory = { 'FBS-001': {...}, ... }: the object literal, each
\* property key with the item written under it.
inventory ==
    (<<"F", "B", "S", "-", "0", "0", "1">> :>
        [sku |-> <<"F", "B", "S", "-", "0", "0", "1">>, category |-> <<"F", "B", "S">>,
         stock_status |-> "NORMAL", needs_reorder |-> FALSE])
    @@ (<<"F", "B", "S", "-", "0", "0", "2">> :>
        [sku |-> <<"F", "B", "S", "-", "0", "0", "2">>, category |-> <<"F", "B", "S">>,
         stock_status |-> "LOW", needs_reorder |-> TRUE])
    @@ (<<"M", "E", "D", "-", "0", "0", "1">> :>
        [sku |-> <<"M", "E", "D", "-", "0", "0", "1">>,
         category |-> <<"M", "E", "D", "I", "A">>,
         stock_status |-> "NORMAL", needs_reorder |-> FALSE])
    @@ (<<"P", "L", "S", "-", "0", "0", "1">> :>
        [sku |-> <<"P", "L", "S", "-", "0", "0", "1">>,
         category |-> <<"P", "L", "A", "S", "T", "I", "C", "S">>,
         stock_status |-> "LOW", needs_reorder |-> TRUE])

\* Object.values(obj)
ObjectValues(obj) == { obj[k] : k \in DOMAIN obj }

\* obj[key], as the list of the item found: empty when obj has no such key.
Lookup(obj, key) == IF key \in DOMAIN obj THEN { obj[key] } ELSE {}

\* The parsed body of POST /api/inventory/check: which of sku and category
\* it has, and whether the sku is a string (a number has no toUpperCase).
InvBody(hasSku, sku, hasCategory, category) ==
    [hasSku |-> hasSku, skuIsString |-> TRUE, sku |-> sku,
     hasCategory |-> hasCategory, category |-> category]

InvBodyValues ==
    { InvBody(FALSE, <<>>, FALSE, <<>>),
      InvBody(TRUE, <<"f", "b", "s", "-", "0", "0", "1">>, FALSE, <<>>),
      InvBody(TRUE, <<"F", "B", "S", "-", "0", "0", "2">>, FALSE, <<>>),
      InvBody(TRUE, <<"x", "y", "z", "-", "9">>, FALSE, <<>>),
      InvBody(TRUE, <<>>, FALSE, <<>>),
      InvBody(FALSE, <<>>, TRUE, <<"F", "B", "S">>),
      InvBody(FALSE, <<>>, TRUE, <<"f", "b", "s">>),
      InvBody(FALSE, <<>>, TRUE, <<"N", "O", "N", "E">>),
      InvBody(TRUE, <<"m", "e", "d", "-", "0", "0", "1">>, TRUE, <<"F", "B", "S">>),
      [InvBody(TRUE, <<"5">>, FALSE, <<>>) EXCEPT !.skuIsString = FALSE] }

\* The request bodies: the JSON texts of the values above, a text that is
\* no JSON, and the empty body, which the handler reads as '{}'.
EmptyBody == [valid |-> FALSE, canon |-> FALSE, value |-> [raw |-> ""]]

InvBodies == { JSONStringify(v) : v \in InvBodyValues } \cup { NotJson, EmptyBody }

InvIdle ==
    [phase |-> "idle", route |-> "none", body |-> EmptyBody,
     status |-> 0, success |-> FALSE, count |-> 0, data |-> {}]

InvOthers == UNCHANGED <<enrVars, secVars, intVars, natVars, prbVars, apiVars, errVars, rteVars>>

InvInit ==
    /\ invReq = [r \in 1..MaxReq |-> InvIdle]
    /\ invInventory = inventory

\* The native server not started (runs of the other servers).
InvOff ==
    /\ invReq = [r \in 1..MaxReq |-> [InvIdle EXCEPT !.phase = "off"]]
    /\ invInventory = inventory

\* res.end(JSON.stringify({ success: true, count: results.length, data }))
InvRespond(q, results) ==
    [q EXCEPT !.phase = "done", !.status = 200, !.success = TRUE,
              !.count = Cardinality(results), !.data = results]

\* The low-stock filter without its test.
LowStockUnfiltered(items) == items

\* Object.values(inventory).filter(i => i.needs_reorder ||
\*                                      i.stock_status === 'LOW')
LowStock(items) ==
    { i \in items : i.needs_reorder \/ i.stock_status = "LOW" }

\* The lookup of /api/inventory/check comparing the sku as it was sent.
InventoryCheckExactSku(body) ==
    IF body.hasSku /\ body.sku # <<>>
    THEN Lookup(invInventory, body.sku)
    ELSE IF body.hasCategory /\ body.category # <<>>
    THEN { i \in ObjectValues(invInventory) : i.category = ToUpperCase(body.category) }
    ELSE ObjectValues(invInventory)

\* if (sku) inventory[sku.toUpperCase()]; else if (category) the items
\* whose category === category.toUpperCase(); else every item.  An absent
\* and an empty string are both falsy.
InventoryCheck(body) ==
    IF body.hasSku /\ body.sku # <<>>
    THEN Lookup(invInventory, ToUpperCase(body.sku))
    ELSE IF body.hasCategory /\ body.category # <<>>
    THEN { i \in ObjectValues(invInventory) : i.category = ToUpperCase(body.category) }
    ELSE ObjectValues(invInventory)

\* A handler that deletes what it has read.
InventoryEmptiedByRequest == [k \in {} |-> k]

\* The inventory object after a request: the handlers read it through
\* inventory[...] and Object.values(inventory) and hold no assignment to
\* it or to one of its items.
InventoryAfterRequest == invInventory

\* The request listener for the inventory routes: /api/inventory/low-stock
\* answers at once, /api/inventory/check waits for its body.
InvArrive(r, route) ==
    /\ invReq[r].phase = "idle"
    /\ \A s \in 1..(r - 1) : invReq[s].phase # "idle"
    /\ LET q == [InvIdle EXCEPT !.route = route]
       IN  invReq' = [invReq EXCEPT ![r] =
              IF route = "GET /api/inventory/low-stock"
              THEN InvRespond(q, LowStock(ObjectValues(invInventory)))
              ELSE [q EXCEPT !.phase = "reading"]]
    /\ invInventory' = InventoryAfterRequest
    /\ InvOthers

\* POST /api/inventory/check, req.on('end'): JSON.parse(body || '{}'); a
\* parse error and a sku without toUpperCase are caught and answered 400.
InvCheckEnd(r, body) ==
    /\ invReq[r].phase = "reading"
    /\ LET q == [invReq[r] EXCEPT !.body = body]
           text == IF body = EmptyBody THEN JSONStringify(InvBody(FALSE, <<>>, FALSE, <<>>))
                   ELSE body
       IN  invReq' = [invReq EXCEPT ![r] =
              IF ~JSONParseOk(text)
              THEN [q EXCEPT !.phase = "done", !.status = 400]
              ELSE IF JSONParse(text).hasSku /\ ~JSONParse(text).skuIsString
              THEN [q EXCEPT !.phase = "done", !.status = 400]
              ELSE InvRespond(q, InventoryCheck(JSONParse(text)))]
    /\ invInventory' = InventoryAfterRequest
    /\ InvOthers

InvNext ==
    \/ \E r \in 1..MaxReq :
          \E route \in {"GET /api/inventory/low-stock", "POST /api/inventory/check"} :
             InvArrive(r, route)
    \/ \E r \in 1..MaxReq, body \in InvBodies : InvCheckEnd(r, body)

(***************************************************************************)
(* SECURE SERVER, /health, /metrics and /api/v1                            *)
(* (src/server-secure.js, src/middleware/security.js, src/unnamed/part_002 *)
(*  the database module, src/unnamed/part_003 the circuit-breaker module)  *)
(***************************************************************************)
\* A value of the x-api-key header or of the apiKey query parameter: absent,
\* a string, or the array Express makes of a repeated query parameter.
NoKey == [kind |-> "none", text |-> ""]

StringKey(text) == [kind |-> "string", text |-> text]

ArrayKey(text) == [kind |-> "array", text |-> text]

\* The credentials of the model's requests.
ApiCredentials ==
    { [header |-> NoKey, query |-> NoKey],
      [header |-> StringKey("k-int"), query |-> NoKey],
      [header |-> StringKey("k-bad"), query |-> NoKey],
      [header |-> NoKey, query |-> StringKey("k-ext")],
      [header |-> NoKey, query |-> StringKey("k-bad")],
      [header |-> NoKey, query |-> ArrayKey("k-int")] }

ApiRoutes ==
    { "GET /health", "GET /metrics", "GET /api/v1/contacts", "GET /api/v1/other" }

\* What healthCheck() of the database module reports for MongoDB.
MongoHealths == { "healthy", "unhealthy", "disconnected" }

\* The methods of class CircuitBreakerManager.
CircuitBreakerManagerMethods == { "create", "get", "getStatus" }

ApiIdle ==
    [phase |-> "idle", route |-> "none",
     cred |-> [header |-> NoKey, query |-> NoKey], mongo |-> "none",
     status |-> 0, by |-> "none", handled |-> FALSE, body |-> "none"]

ApiOthers == UNCHANGED <<enrVars, secVars, intVars, natVars, prbVars, invVars, errVars, rteVars>>

ApiInit ==
    /\ apiKeys \in { {}, {"k-int"}, {"k-int", "k-ext"} }
    /\ apiReq = [r \in 1..MaxReq |-> ApiIdle]

\* The secure server not started (runs of the other servers).
ApiOff ==
    /\ apiKeys = {}
    /\ apiReq = [r \in 1..MaxReq |-> [ApiIdle EXCEPT !.phase = "off"]]

\* res.status(status).json(...) by the named middleware or handler.
ApiRespond(q, status, by, body) ==
    [q EXCEPT !.phase = "done", !.status = status, !.by = by, !.body = body]

\* authenticateAPIKey: 401 without a key and for a key not among the
\* configured ones.  The log line of the second case calls
\* apiKey.substring, which an array does not have: the TypeError goes to
\* the error handler.
authenticateAPIKey(cred, keys) ==
    LET apiKey == IF cred.header # NoKey THEN cred.header ELSE cred.query
    IN  IF apiKey = NoKey THEN "401"
        ELSE IF ~(apiKey.kind = "string" /\ apiKey.text \in keys)
        THEN IF apiKey.kind = "string" THEN "401" ELSE "throw"
        ELSE "next"

\* The /health handler: healthCheck(), then circuitBreakerManager
\* .healthCheck(); a throw inside the try answers 503 'unhealthy'.
HealthHandler(q) ==
    IF "healthCheck" \notin CircuitBreakerManagerMethods
    THEN ApiRespond([q EXCEPT !.handled = TRUE], 503, "health", "unhealthy")
    ELSE IF q.mongo = "healthy"
    THEN ApiRespond([q EXCEPT !.handled = TRUE], 200, "health", "healthy")
    ELSE ApiRespond([q EXCEPT !.handled = TRUE], 503, "health", "degraded")

\* The /metrics handler: circuitBreakerManager.getMetrics() outside any try;
\* a throw goes to errorHandler, which answers 500.
MetricsHandler(q) ==
    IF "getMetrics" \notin CircuitBreakerManagerMethods
    THEN ApiRespond([q EXCEPT !.handled = TRUE], 500, "errorHandler", "error")
    ELSE ApiRespond([q EXCEPT !.handled = TRUE], 200, "metrics", "metrics")

\* A request through the middleware chain of its route.  /health has no
\* guard.  /metrics: authenticateAPIKey, handler.  /api/v1/...: the global
\* '/api' rate limiter, authenticateAPIKey of the router, then the route's
\* own limiter and handler, or the 404 handler for a path without route.
ApiRequest(r, route, cred, mongo, overGlobal, overRoute) ==
    /\ apiReq[r].phase = "idle"
    /\ \A s \in 1..(r - 1) : apiReq[s].phase # "idle"
    /\ LET q == [ApiIdle EXCEPT !.route = route, !.cred = cred,
                                !.mongo = IF route = "GET /health" THEN mongo
                                          ELSE "none"]
           auth == authenticateAPIKey(cred, apiKeys)
           rejected == IF auth = "401" THEN ApiRespond(q, 401, "authenticateAPIKey", "error")
                       ELSE ApiRespond(q, 500, "errorHandler", "error")
       IN  apiReq' = [apiReq EXCEPT ![r] =
              IF route = "GET /health" THEN HealthHandler(q)
              ELSE IF route = "GET /metrics"
              THEN IF auth = "next" THEN MetricsHandler(q) ELSE rejected
              ELSE IF overGlobal THEN ApiRespond(q, 429, "rateLimiter", "error")
              ELSE IF auth # "next" THEN rejected
              ELSE IF route = "GET /api/v1/other"
              THEN ApiRespond(q, 404, "notFound", "error")
              ELSE IF overRoute THEN ApiRespond(q, 429, "rateLimiter", "error")
              ELSE ApiRespond([q EXCEPT !.handled = TRUE], 200, "contacts", "contacts")]
    /\ UNCHANGED apiKeys
    /\ ApiOthers

ApiNext ==
    \E r \in 1..MaxReq, route \in ApiRoutes, cred \in ApiCredentials,
       mongo \in MongoHealths, overGlobal \in BOOLEAN, overRoute \in BOOLEAN :
        ApiRequest(r, route, cred, mongo, overGlobal, overRoute)

(***************************************************************************)
(* COMPREHENSIVE ERROR HANDLER  (src/middleware/security.js, 331-706)      *)
(***************************************************************************)
\* const ErrorCategories
ErrorCategories ==
    { "VALIDATION_ERROR", "AUTHENTICATION_ERROR", "AUTHORIZATION_ERROR",
      "NOT_FOUND", "CONFLICT", "RATE_LIMITED", "SERVICE_UNAVAILABLE",
      "EXTERNAL_SERVICE_ERROR", "DATABASE_ERROR", "INTERNAL_ERROR" }

\* const UserMessages
UserMessages ==
    [c \in ErrorCategories |->
       CASE c = "VALIDATION_ERROR" -> "Please check your input and try again."
         [] c = "AUTHENTICATION_ERROR" -> "Please log in to continue."
         [] c = "AUTHORIZATION_ERROR" ->
                "You do not have permission to perform this action."
         [] c = "NOT_FOUND" -> "The requested resource was not found."
         [] c = "CONFLICT" -> "This operation conflicts with existing data."
         [] c = "RATE_LIMITED" -> "Too many requests. Please try again later."
         [] c = "SERVICE_UNAVAILABLE" ->
                "Service temporarily unavailable. Please try again."
         [] c = "EXTERNAL_SERVICE_ERROR" ->
                "External service is not responding. Please try again later."
         [] c = "DATABASE_ERROR" -> "Database operation failed. Please try again."
         [] c = "INTERNAL_ERROR" ->
                "An unexpected error occurred. Please try again."]

\* An Error object, with the properties categorizeError reads.  A property
\* that is not set is "" (strings), 0 (numbers and retry-after values, all
\* of them falsy in the code's || chains) or FALSE.  response is the status
\* of err.response (0: no response), responseRetryAfter its retry-after
\* header, request whether err.request is set.
PlainError(message) ==
    [name |-> "Error", message |-> message, code |-> "", status |-> 0,
     isJoi |-> FALSE, details |-> FALSE, errors |-> FALSE,
     response |-> 0, responseRetryAfter |-> 0, request |-> FALSE,
     isAxiosError |-> FALSE, statusCode |-> 0, category |-> "",
     userMessage |-> "", retryAfter |-> 0]

\* class AppError extends Error: name stays 'Error'.
AppError(message, statusCode, category) ==
    [PlainError(message) EXCEPT !.statusCode = statusCode,
                                !.category = category,
                                !.userMessage = UserMessages[category]]

\* class ValidationError extends AppError
ValidationError(message) == AppError(message, 400, "VALIDATION_ERROR")

\* class AuthenticationError extends AppError
AuthenticationError == AppError("Authentication required", 401, "AUTHENTICATION_ERROR")

\* class AuthorizationError extends AppError
AuthorizationError == AppError("Access denied", 403, "AUTHORIZATION_ERROR")

\* class NotFoundError extends AppError: `${resource} not found`
NotFoundError == AppError("Resource not found", 404, "NOT_FOUND")

\* class ConflictError extends AppError
ConflictError == AppError("Resource conflict", 409, "CONFLICT")

\* class RateLimitError extends AppError
RateLimitError(retryAfter) ==
    [AppError("Rate limit exceeded", 429, "RATE_LIMITED")
        EXCEPT !.retryAfter = retryAfter]

\* err.message?.includes('not found'), over the messages of the model.
IncludesNotFound(message) == message \in { "Resource not found", "User not found" }

\* The errors a handler passes to next(err) in the model: driver errors,
\* validation and token errors, http errors, socket errors, axios errors,
\* the application's own error classes and a plain Error.
ErrInputs ==
    { PlainError("boom"),
      PlainError("User not found"),
      [PlainError("write failed") EXCEPT !.name = "MongoError", !.code = "121"],
      [PlainError("E11000 duplicate key") EXCEPT !.name = "MongoServerError",
                                                !.code = "11000"],
      [PlainError("auth failed") EXCEPT !.name = "MongoError", !.code = "8000"],
      [PlainError("email is required") EXCEPT !.name = "ValidationError",
                                              !.isJoi = TRUE, !.details = TRUE],
      [PlainError("jwt malformed") EXCEPT !.name = "JsonWebTokenError"],
      [PlainError("Too Many Requests") EXCEPT !.status = 429],
      [PlainError("connect ECONNREFUSED") EXCEPT !.code = "ECONNREFUSED"],
      [PlainError("Request failed with status code 429")
          EXCEPT !.isAxiosError = TRUE, !.response = 429,
                 !.responseRetryAfter = 30, !.request = TRUE],
      [PlainError("Request failed with status code 502")
          EXCEPT !.isAxiosError = TRUE, !.response = 502, !.request = TRUE],
      [PlainError("Request failed with status code 404")
          EXCEPT !.isAxiosError = TRUE, !.response = 404, !.request = TRUE],
      [PlainError("socket hang up") EXCEPT !.isAxiosError = TRUE,
                                           !.request = TRUE],
      ValidationError("email is required"),
      AuthenticationError,
      NotFoundError,
      RateLimitError(30) }

\* What categorizeError starts from.
InternalErrorInfo ==
    [category |-> "INTERNAL_ERROR", statusCode |-> 500,
     userMessage |-> UserMessages["INTERNAL_ERROR"],
     details |-> {}, retryAfter |-> 0]

\* The category of an axios error with a response, by the response's status.
AxiosCategory(statusCode) ==
    IF statusCode = 404 THEN "NOT_FOUND"
    ELSE IF statusCode = 429 THEN "RATE_LIMITED"
    ELSE IF statusCode >= 500 THEN "EXTERNAL_SERVICE_ERROR"
    ELSE IF statusCode = 401 THEN "AUTHENTICATION_ERROR"
    ELSE IF statusCode = 403 THEN "AUTHORIZATION_ERROR"
    ELSE IF statusCode = 400 THEN "VALIDATION_ERROR"
    ELSE "INTERNAL_ERROR"

\* a || b || c over retry-after values
FirstTruthy(a, b, c) == IF a # 0 THEN a ELSE IF b # 0 THEN b ELSE c

\* function categorizeError(err): the first branch that matches decides;
\* details is the set of keys the branch puts into the details object.
categorizeError(err) ==
    LET b == InternalErrorInfo
        info ==
          IF err.name \in { "MongoError", "MongoServerError" }
          THEN IF err.code = "11000"
               THEN [b EXCEPT !.category = "CONFLICT", !.statusCode = 409,
                              !.userMessage = "This record already exists.",
                              !.details = { "field" }]
               ELSE IF err.code = "8000"
               THEN [b EXCEPT !.category = "AUTHENTICATION_ERROR",
                              !.statusCode = 401,
                              !.userMessage = "Database authentication failed."]
               ELSE [b EXCEPT !.category = "DATABASE_ERROR"]
          ELSE IF err.name = "ValidationError" \/ err.isJoi
          THEN [b EXCEPT !.category = "VALIDATION_ERROR", !.statusCode = 400,
                         !.userMessage = UserMessages["VALIDATION_ERROR"],
                         !.details = IF err.details \/ err.errors
                                     THEN { "fields" } ELSE {}]
          ELSE IF err.name \in { "UnauthorizedError", "JsonWebTokenError" }
          THEN IF err.name = "TokenExpiredError"
               THEN [b EXCEPT !.category = "AUTHENTICATION_ERROR",
                              !.statusCode = 401,
                              !.userMessage =
                                  "Your session has expired. Please log in again.",
                              !.details = { "expired" }]
               ELSE [b EXCEPT !.category = "AUTHENTICATION_ERROR",
                              !.statusCode = 401,
                              !.userMessage = UserMessages["AUTHENTICATION_ERROR"]]
          ELSE IF err.status = 429 \/ err.response = 429
          THEN [b EXCEPT !.category = "RATE_LIMITED", !.statusCode = 429,
                         !.userMessage = UserMessages["RATE_LIMITED"],
                         !.retryAfter = FirstTruthy(err.retryAfter,
                                                    err.responseRetryAfter, 60)]
          ELSE IF err.code \in { "ECONNREFUSED", "ETIMEDOUT", "ENOTFOUND" }
          THEN [b EXCEPT !.category = "EXTERNAL_SERVICE_ERROR",
                         !.statusCode = 503,
                         !.userMessage = UserMessages["EXTERNAL_SERVICE_ERROR"],
                         !.details = { "service" }]
          ELSE IF err.isAxiosError
          THEN IF err.response # 0
               THEN [b EXCEPT !.statusCode = err.response,
                              !.category = AxiosCategory(err.response),
                              !.retryAfter = IF err.response = 429
                                             THEN err.responseRetryAfter ELSE 0,
                              !.details = { "service", "responseData" }]
               ELSE IF err.request
               THEN [b EXCEPT !.category = "SERVICE_UNAVAILABLE",
                              !.statusCode = 503, !.details = { "service" }]
               ELSE b
          ELSE IF err.statusCode # 0
          THEN [b EXCEPT !.statusCode = err.statusCode,
                         !.userMessage = IF err.userMessage # ""
                                         THEN err.userMessage
                                         ELSE UserMessages[b.category],
                         !.category = IF err.category # "" THEN err.category
                                      ELSE b.category]
          ELSE IF err.status = 404 \/ IncludesNotFound(err.message)
          THEN [b EXCEPT !.category = "NOT_FOUND", !.statusCode = 404,
                         !.userMessage = UserMessages["NOT_FOUND"]]
          ELSE b
    IN  [info EXCEPT !.userMessage = IF info.userMessage # ""
                                     THEN info.userMessage
                                     ELSE UserMessages[info.category]]

NodeEnvs == { "production", "development", "test" }

ErrIdle ==
    [phase |-> "idle", err |-> PlainError(""), status |-> 0, type |-> "",
     message |-> "", details |-> FALSE, stack |-> FALSE, retryAfter |-> 0]

ErrOthers == UNCHANGED <<enrVars, secVars, intVars, natVars, prbVars, invVars, apiVars, rteVars>>

ErrInit ==
    /\ errEnv \in NodeEnvs
    /\ errReq = [r \in 1..MaxReq |-> ErrIdle]

\* The error handler not mounted (runs of the other servers).
ErrOff ==
    /\ errEnv = "off"
    /\ errReq = [r \in 1..MaxReq |-> ErrIdle]

\* const errorHandler = (err, req, res, next) => ...: a request whose
\* handler passed err to next(err) is answered with
\* { error: { id, type, message, timestamp } }, plus details and stack
\* when NODE_ENV is 'development', plus retryAfter when errorInfo has one.
errorHandler(r, err) ==
    LET errorInfo == categorizeError(err)
    IN  /\ errReq[r].phase = "idle"
        /\ \A s \in 1..(r - 1) : errReq[s].phase # "idle"
        /\ errReq' = [errReq EXCEPT ![r] =
              [phase |-> "done", err |-> err,
               status |-> errorInfo.statusCode,
               type |-> errorInfo.category,
               message |-> errorInfo.userMessage,
               details |-> (errEnv = "development"),
               stack |-> (errEnv = "development"),
               retryAfter |-> errorInfo.retryAfter]]
        /\ UNCHANGED errEnv
        /\ ErrOthers

ErrNext == \E r \in 1..MaxReq, err \in ErrInputs : errorHandler(r, err)

(***************************************************************************)
(* NATIVE SERVER, route dispatch and GET /api/ghl/contacts                 *)
(* (src/server-native.js)                                                  *)
(*                                                                         *)
(* req.url is a record: path, the sequence of the parts of the text before *)
(* the "?", and search, the sequence of the key/value pairs after it.  A   *)
(* path that continues a registered path has the registered path's parts   *)
(* first, so that a string prefix is a prefix of the sequence of parts.    *)
(* A parameter value is the sequence of its characters.                    *)
(***************************************************************************)
Url(path, search) == [path |-> path, search |-> search]

\* req.url === text, for a text without "?"
UrlEquals(url, path) == url.path = path /\ url.search = <<>>

\* req.url.startsWith(text), for a text without "?"
UrlStartsWith(url, prefix) ==
    /\ Len(url.path) >= Len(prefix)
    /\ SubSeq(url.path, 1, Len(prefix)) = prefix

HealthPath == <<"/health">>

TestPath == <<"/api/test/">>

ContactsPath == <<"/api/ghl/contacts">>

OpportunitiesPath == <<"/api/ghl/opportunities">>

TasksPath == <<"/api/ghl/tasks">>

StatsPath == <<"/api/ghl/stats">>

InventoryCheckPath == <<"/api/inventory/check">>

LowStockPath == <<"/api/inventory/low-stock">>

\* The request listener's chain of if statements, in the order of the
\* source: the handler that answers a request.
Dispatch(method, url) ==
    IF method = "OPTIONS" THEN "preflight"
    ELSE IF UrlEquals(url, HealthPath) THEN "health"
    ELSE IF UrlStartsWith(url, TestPath) /\ method = "GET" THEN "test"
    ELSE IF UrlStartsWith(url, ContactsPath) /\ method = "GET" THEN "getContacts"
    ELSE IF UrlEquals(url, ContactsPath) /\ method = "POST" THEN "createContact"
    ELSE IF UrlStartsWith(url, OpportunitiesPath) /\ method = "GET"
    THEN "opportunities"
    ELSE IF UrlStartsWith(url, TasksPath) /\ method = "GET" THEN "tasks"
    ELSE IF UrlEquals(url, StatsPath) /\ method = "GET" THEN "stats"
    ELSE IF UrlEquals(url, InventoryCheckPath) /\ method = "POST"
    THEN "inventoryCheck"
    ELSE IF UrlEquals(url, LowStockPath) /\ method = "GET" THEN "lowStock"
    ELSE "notFound"

\* A JavaScript number: NaN, or an integer.
NaN == [nan |-> TRUE, n |-> 0]

Num(n) == [nan |-> FALSE, n |-> n]

Digits == <<"0", "1", "2", "3", "4", "5", "6", "7", "8", "9">>

IsDigit(c) == \E d \in DOMAIN Digits : Digits[d] = c

DigitValue(c) == (CHOOSE d \in DOMAIN Digits : Digits[d] = c) - 1

\* The value of the longest prefix of digits of str, read after acc.
RECURSIVE ParseDigits(_, _)
ParseDigits(str, acc) ==
    IF str = <<>> \/ ~IsDigit(Head(str)) THEN acc
    ELSE ParseDigits(Tail(str), 10 * acc + DigitValue(Head(str)))

\* parseInt(str): an optional sign, then the longest prefix of decimal
\* digits; NaN when there is no digit.
ParseInt(str) ==
    LET negative == str # <<>> /\ Head(str) = "-"
        signed == str # <<>> /\ Head(str) \in { "-", "+" }
        rest == IF signed THEN Tail(str) ELSE str
    IN  IF rest = <<>> \/ ~IsDigit(Head(rest)) THEN NaN
        ELSE Num(IF negative THEN 0 - ParseDigits(rest, 0) ELSE ParseDigits(rest, 0))

\* Math.min(a, b): NaN when an argument is NaN.
MathMin(a, b) ==
    IF a.nan \/ b.nan THEN NaN
    ELSE IF a.n <= b.n THEN a ELSE b

\* url.searchParams.get(key) || fallback: the value of the first pair with
\* the key; an absent and an empty value are both falsy.
SearchParamOr(url, key, fallback) ==
    LET hits == { i \in DOMAIN url.search : url.search[i].key = key }
        first == CHOOSE i \in hits : \A j \in hits : i <= j
    IN  IF hits = {} THEN fallback
        ELSE IF url.search[first].value = <<>> THEN fallback
        ELSE url.search[first].value

\* The characters of a parameter value.
Chars5 == <<"5">>

Chars500 == <<"5", "0", "0">>

CharsAbc == <<"a", "b", "c">>

CharsMinus5 == <<"-", "5">>

Param(key, value) == [key |-> key, value |-> value]

\* The requests of the model, by method and URL: each registered route, a
\* registered path under another method, with a query string and with a
\* continuation, and GET /api/ghl/contacts with several limit values.
RteRequests ==
    { [method |-> "GET", url |-> Url(HealthPath, <<>>)],
      [method |-> "POST", url |-> Url(HealthPath, <<>>)],
      [method |-> "GET", url |-> Url(HealthPath, <<Param("x", <<"1">>)>>)],
      [method |-> "OPTIONS", url |-> Url(StatsPath, <<>>)],
      [method |-> "GET", url |-> Url(TestPath \o <<"ghl">>, <<>>)],
      [method |-> "GET", url |-> Url(StatsPath, <<>>)],
      [method |-> "GET", url |-> Url(StatsPath, <<Param("x", <<"1">>)>>)],
      [method |-> "POST", url |-> Url(ContactsPath, <<>>)],
      [method |-> "DELETE", url |-> Url(ContactsPath, <<>>)],
      [method |-> "GET", url |-> Url(LowStockPath, <<>>)],
      [method |-> "GET", url |-> Url(<<"/unknown">>, <<>>)],
      [method |-> "GET", url |-> Url(ContactsPath \o <<"X">>, <<>>)],
      [method |-> "GET", url |-> Url(ContactsPath, <<>>)],
      [method |-> "GET", url |-> Url(ContactsPath, <<Param("limit", Chars5)>>)],
      [method |-> "GET", url |-> Url(ContactsPath, <<Param("limit", Chars500)>>)],
      [method |-> "GET", url |-> Url(ContactsPath, <<Param("limit", CharsAbc)>>)],
      [method |-> "GET", url |-> Url(ContactsPath, <<Param("limit", CharsMinus5),
                                                     Param("offset", Chars5)>>)] }

\* What makeGHLRequest('/contacts/', { query }) returns: success with the
\* data of a 2xx answer (an object with a contacts list and a total, the raw
\* text of a body that is no JSON, null for the body "null", an object whose
\* contacts is no list and whose total is a string), or a failure.
RteResults ==
    { [success |-> TRUE, kind |-> "object", contacts |-> "list", total |-> "number"],
      [success |-> TRUE, kind |-> "text", contacts |-> "absent", total |-> "absent"],
      [success |-> TRUE, kind |-> "null", contacts |-> "absent", total |-> "absent"],
      [success |-> TRUE, kind |-> "object", contacts |-> "object", total |-> "string"],
      [success |-> FALSE, kind |-> "null", contacts |-> "absent", total |-> "absent"] }

RteIdle ==
    [phase |-> "idle", method |-> "none", url |-> Url(<<>>, <<>>),
     handler |-> "none", limit |-> NaN, offset |-> NaN, forwarded |-> NaN,
     headSent |-> 0, writeHeadCalls |-> 0, ended |-> FALSE,
     success |-> FALSE,
     dataIsList |-> FALSE, totalIsNumber |-> FALSE]

RteOthers == UNCHANGED <<enrVars, secVars, intVars, natVars, prbVars, invVars, apiVars, errVars>>

RteInit ==
    /\ rteProc = "listening"
    /\ rteReq = [r \in 1..MaxReq |-> RteIdle]

\* The native server not started (runs of the other servers).
RteOff ==
    /\ rteProc = "off"
    /\ rteReq = [r \in 1..MaxReq |-> RteIdle]

\* The request listener up to the first await: the handler is chosen; GET
\* /api/ghl/contacts reads limit and offset with parseInt, puts
\* Math.min(limit, 100) into the query and awaits makeGHLRequest.
RteArrive(r, in) ==
    LET handler == Dispatch(in.method, in.url)
        q == [RteIdle EXCEPT !.method = in.method, !.url = in.url,
                             !.handler = handler]
        limit == ParseInt(SearchParamOr(in.url, "limit", <<"2", "0">>))
        offset == ParseInt(SearchParamOr(in.url, "offset", <<"0">>))
    IN  /\ rteProc = "listening"
        /\ rteReq[r].phase = "idle"
        /\ \A s \in 1..(r - 1) : rteReq[s].phase # "idle"
        /\ rteReq' = [rteReq EXCEPT ![r] =
              IF handler = "getContacts"
              THEN [q EXCEPT !.phase = "upstream", !.limit = limit,
                             !.offset = offset,
                             !.forwarded = MathMin(limit, Num(100))]
              ELSE [q EXCEPT !.phase = "done"]]
        /\ UNCHANGED rteProc
        /\ RteOthers

\* GET /api/ghl/contacts after makeGHLRequest returned.  A failure is
\* answered 500.  On success res.writeHead(200) runs first, then the body
\* is built from result.data.contacts || [] and result.data.total || 0:
\* for data null that throws a TypeError, the catch calls
\* res.writeHead(500) after the header was sent (the handler's second
\* writeHead call for the request), which throws again, and
\* the listener's promise rejects with no 'unhandledRejection' listener
\* installed: the response is never ended and the process ends or goes
\* on, depending on the runtime's handling of unhandled rejections.
RteContactsResult(r, result, exits) ==
    LET q == rteReq[r]
    IN  /\ rteProc = "listening"
        /\ q.phase = "upstream"
        /\ IF ~result.success
           THEN /\ rteReq' = [rteReq EXCEPT ![r] =
                      [q EXCEPT !.phase = "done", !.headSent = 500,
                                !.writeHeadCalls = 1, !.ended = TRUE]]
                /\ UNCHANGED rteProc
           ELSE IF result.kind = "null"
           THEN /\ rteReq' = [rteReq EXCEPT ![r] =
                      [q EXCEPT !.phase = "abandoned", !.headSent = 200,
                                !.writeHeadCalls = 2]]
                /\ rteProc' = IF exits THEN "crashed" ELSE "listening"
           ELSE /\ rteReq' = [rteReq EXCEPT ![r] =
                      [q EXCEPT !.phase = "done", !.headSent = 200,
                                !.writeHeadCalls = 1, !.ended = TRUE,
                                !.success = TRUE,
                                !.dataIsList = (result.contacts \in {"list", "absent"}),
                                !.totalIsNumber = (result.total \in {"number", "absent"})]]
                /\ UNCHANGED rteProc
        /\ RteOthers

RteNext ==
    \/ \E r \in 1..MaxReq, in \in RteRequests : RteArrive(r, in)
    \/ \E r \in 1..MaxReq, result \in RteResults, exits \in BOOLEAN :
          RteContactsResult(r, result, exits)

EnrNext ==
    \/ \E r \in 1..MaxReq, body \in EnrBodies : \E sig \in EnrSignatures(body) :
          \E path \in {"POST /api/webhooks/ghl", "GET /stats", "GET /unknown"} :
             EnrArrive(r, path, body, sig)
    \/ \E r \in 1..MaxReq : EnrEnd(r)
    \/ \E r \in 1..MaxReq, status \in UpstreamStatuses, text \in UpstreamTexts :
          updateGHLContactEnd(r, status, text)
    \/ \E r \in 1..MaxReq : updateGHLContactError(r)

(***************************************************************************)
(* The specifications: one server runs, the others are off.               *)
(***************************************************************************)
EnrichInit == EnrInit /\ SecOff /\ IntOff /\ NatOff /\ PrbOff /\ InvOff /\ ApiOff /\ ErrOff /\ RteOff

EnrichSpec == EnrichInit /\ [][EnrNext]_vars

SecureInit == SecInit /\ EnrOff /\ IntOff /\ NatOff /\ PrbOff /\ InvOff /\ ApiOff /\ ErrOff /\ RteOff

SecureSpec == SecureInit /\ [][SecNext]_vars

\* Node's event loop runs every queued callback: an async function that was
\* called runs, and a pending unhandled rejection is reported.
SecureFairSpec ==
    SecureSpec /\ WF_vars(gracefulShutdown) /\ WF_vars(SecUnhandledRejection)

IntegInit == IntInit /\ EnrOff /\ SecOff /\ NatOff /\ PrbOff /\ InvOff /\ ApiOff /\ ErrOff /\ RteOff

IntegSpec == IntegInit /\ [][IntNext]_vars

NativeInit == NatInit /\ EnrOff /\ SecOff /\ IntOff /\ PrbOff /\ InvOff /\ ApiOff /\ ErrOff /\ RteOff

NativeSpec == NativeInit /\ [][NatNext]_vars

ProbeInit == PrbInit /\ EnrOff /\ SecOff /\ IntOff /\ NatOff /\ InvOff /\ ApiOff /\ ErrOff /\ RteOff

ProbeSpec == ProbeInit /\ [][PrbNext]_vars

InventoryInit == InvInit /\ EnrOff /\ SecOff /\ IntOff /\ NatOff /\ PrbOff /\ ApiOff /\ ErrOff /\ RteOff

InventorySpec == InventoryInit /\ [][InvNext]_vars

SecureApiInit ==
    ApiInit /\ EnrOff /\ SecOff /\ IntOff /\ NatOff /\ PrbOff /\ InvOff
            /\ ErrOff /\ RteOff

SecureApiSpec == SecureApiInit /\ [][ApiNext]_vars

ErrorsInit ==
    ErrInit /\ EnrOff /\ SecOff /\ IntOff /\ NatOff /\ PrbOff /\ InvOff
            /\ ApiOff /\ RteOff

ErrorsSpec == ErrorsInit /\ [][ErrNext]_vars

RoutingInit ==
    RteInit /\ EnrOff /\ SecOff /\ IntOff /\ NatOff /\ PrbOff /\ InvOff
            /\ ApiOff /\ ErrOff

RoutingSpec == RoutingInit /\ [][RteNext]_vars

\* The timer set by req.setTimeout fires when the request is still pending.
ProbeFairSpec == ProbeSpec /\ \A r \in 1..MaxReq : WF_vars(PrbTimeout(r))

(***************************************************************************)
(* Claims about the enrichment server.                                     *)
(***************************************************************************)
EnrWebhook(q) == q.path = "POST /api/webhooks/ghl" /\ q.phase \in {"upstream", "done"}

\* C1: POST /api/webhooks/ghl fails closed: with a configured (non-default)
\* secret, a request whose x-ghl-signature header is missing or is not the
\* HMAC of its body is answered 401 and processWebhook is not invoked for it.
C1_WebhookFailsClosed ==
    \A r \in 1..MaxReq :
        LET q == enrReq[r] IN
        ( /\ EnrWebhook(q)
          /\ enrSecret # DefaultWebhookSecret
          /\ (q.sig = NoHeader \/ q.sig # Hmac(enrSecret, q.body)) )
        => (q.status = 401 /\ ~q.processed)

\* C2 (as claimed): for every body, signature and secret the verifier returns
\* true if and only if the signature is the hex HMAC-SHA256 of the body under
\* the secret.
C2_VerifyIffHmacAnySecret ==
    \A r \in 1..MaxReq :
        LET q == enrReq[r] IN
        q.verified # "not called"
        => ((q.verified = "true") <=> (q.sig = Hmac(enrSecret, q.body)))

\* C2 (amended): under a configured secret (not the default placeholder)
\* verifyWebhookSignature returns true if and only if the signature is the
\* hex HMAC-SHA256 of the body under the secret, and changing the body or the
\* signature of an accepted pair makes it false; under the default
\* placeholder secret it returns true for every signature.
C2_VerifyIffHmacConfigured ==
    \A r \in 1..MaxReq :
        LET q == enrReq[r] IN
        q.verified # "not called"
        => IF enrSecret = DefaultWebhookSecret
           THEN q.verified = "true"
           ELSE /\ (q.verified = "true") <=> (q.sig = Hmac(enrSecret, q.body))
                /\ q.verified = "true" =>
                     /\ \A b \in EnrBodies \ {q.body} :
                           ~verifyWebhookSignature(b, q.sig)
                     /\ \A b \in EnrBodies : \A s \in EnrSignatures(b) \ {q.sig} :
                           ~verifyWebhookSignature(q.body, s)

\* C2 witness: under a configured secret one request was accepted by the
\* verifier and another was refused.
C2_Witness ==
    /\ enrSecret # DefaultWebhookSecret
    /\ \E r \in 1..MaxReq : enrReq[r].verified = "true"
    /\ \E r \in 1..MaxReq : enrReq[r].verified = "false"

\* C10: when the upstream response body is not valid JSON the client returns
\* the raw text as the data of its result: it does not throw, reject or
\* crash the process, whatever the response status.
C10_ParseFailureYieldsRawText ==
    \A r \in 1..MaxReq :
        LET q == enrReq[r] IN
        (q.upOutcome \in {"resolved", "rejected", "threw"} /\ q.upStatus # 0
         /\ ~JSONParseOk(q.upText))
        => (q.upOutcome = "resolved" /\ q.upData = q.upText /\ enrProc # "crashed")

(***************************************************************************)
(* Claims about the secure server.                                         *)
(***************************************************************************)
\* The signature verifyGHLWebhook reads: x-ghl-signature || x-hook-signature.
SecSignature(q) == IF q.ghl # NoHeader THEN q.ghl ELSE q.hook

\* The request went past verifyGHLWebhook into the rate limiter or handler.
SecPastVerifier(q) ==
    q.phase = "limiter" \/ q.handled \/ q.by \in {"limiter", "handler"}

\* C3: the /webhook/contact.create handler, and the rate limiter before it,
\* run only for a request for which verifyGHLWebhook called next():
\* GHL_WEBHOOK_SECRET is configured, a signature header is present and it
\* equals the HMAC the middleware expects; every other request was answered
\* with a rejection by an earlier middleware and its handler never runs.
C3_HandlerOnlyAfterVerification ==
    \A r \in 1..MaxReq :
        LET q == secReq[r] IN
        /\ SecPastVerifier(q) =>
              /\ q.verified
              /\ secSecret # ""
              /\ SecSignature(q) # NoHeader
              /\ SecSignature(q) = Hmac(secSecret, JSONStringify(q.body))
        /\ (q.phase = "done" /\ ~q.verified) =>
              (~q.handled /\ q.status \in {400, 401, 500})

\* C3 witness: a verified webhook reached the handler and was answered 200,
\* and another request was turned away by the verifier.
C3_Witness ==
    /\ \E r \in 1..MaxReq : secReq[r].handled /\ secReq[r].status = 200
    /\ \E r \in 1..MaxReq : secReq[r].by = "verify" /\ ~secReq[r].handled

\* C4: every request that carries a signature header which does not verify
\* (any value, of any length, different from the expected HMAC) is answered
\* with status 401 by the webhook middleware.
C4_BadSignatureIs401 ==
    \A r \in 1..MaxReq :
        LET q == secReq[r] IN
        ( /\ q.by = "verify"
          /\ secSecret # ""
          /\ SecSignature(q) # NoHeader
          /\ SecSignature(q) # Hmac(secSecret, JSONStringify(q.body)) )
        => q.status = 401

\* C5: the HMAC is computed over the exact raw request bytes: a request whose
\* signature header is HMAC-SHA256(secret, raw body) passes verification,
\* whatever body parsing and sanitisation did before the verifier ran.
C5_RawBodySignaturePasses ==
    \A r \in 1..MaxReq :
        LET q == secReq[r] IN
        ( /\ q.phase \in {"limiter", "done"}
          /\ q.by \notin {"cors", "json"}
          /\ secSecret # ""
          /\ SecSignature(q) = Hmac(secSecret, q.raw) )
        => q.verified

\* C6: once a shutdown signal, uncaught exception or unhandled rejection has
\* started gracefulShutdown, the server stops accepting connections and the
\* process eventually exits.
C6_ShutdownReachesExit ==
    (secShutdown # "idle") ~> (secProc \in {"exited0", "exited1"})

(***************************************************************************)
(* Claims about the integration server.                                    *)
(***************************************************************************)

\* C7: once an uncaught exception or an unhandled rejection occurred, the
\* process shuts down and serves no further request: no response is sent by
\* a process that has had such a fault.
C7_NoResponseAfterFault ==
    \A r \in 1..MaxReq :
        intReq[r].phase = "done" => ~intReq[r].afterFault

\* C8: every upstream call is made with a request timeout: a call that
\* waits for the upstream has its timeout armed, so that a silent upstream
\* ends in a timeout error and the inbound request is answered.
C8_UpstreamCallHasTimeout ==
    /\ \A r \in 1..MaxReq :
          intReq[r].phase = "upstream" => intReq[r].timeoutArmed
    /\ \A r \in 1..MaxReq : \A c \in 1..2 :
          natReq[r].calls[c].state = "pending" => natReq[r].calls[c].timeoutArmed

(***************************************************************************)
(* Claims about the native server.                                         *)
(***************************************************************************)

\* C9: a non-2xx upstream response makes the upstream client return a
\* failure result, and the contacts, opportunities, tasks and stats handlers
\* answer a request whose upstream call failed that way with success false.
C9_UpstreamFailureAnswersFailure ==
    \A r \in 1..MaxReq :
        LET q == natReq[r]
            failed == { c \in 1..2 : /\ q.calls[c].state = "resolved"
                                     /\ ~makeGHLRequestSuccess(q.calls[c].status) }
        IN  /\ \A c \in failed : ~q.calls[c].success
            /\ (q.phase = "done" /\ q.route \in CrmRoutes /\ failed # {})
                  => ~q.success

\* C14: POST /api/ghl/contacts with a body that has neither email nor phone
\* is answered 400 with a failure body and no upstream request is made for
\* it.
C14_ContactWithoutEmailOrPhoneIs400 ==
    \A r \in 1..MaxReq :
        LET q == natReq[r] IN
        (q.route = "POST /api/ghl/contacts" /\ q.body = "{}")
            => /\ q.phase = "done" /\ q.status = 400 /\ ~q.success
               /\ \A c \in 1..2 : q.calls[c].state = "none"

C14_Witness ==
    \E r \in 1..MaxReq :
        /\ natGhlConfigured
        /\ natReq[r].route = "POST /api/ghl/contacts" /\ natReq[r].body = "{}"
        /\ natReq[r].phase = "done" /\ natReq[r].status = 400

\* C17: every request that matches no route is answered 404 with a
\* structured body that lists the known endpoints.
C17_NotFoundListsEndpoints ==
    \A r \in 1..MaxReq :
        LET q == natReq[r] IN
        (q.phase = "done" /\ q.route \notin CrmRoutes \cup {"GET /health"})
            => q.status = 404 /\ q.endpoints

(***************************************************************************)
(* Claims about the integration test endpoints of the native server.       *)
(***************************************************************************)
\* The probe a URL addresses: the registered name its pathname ends with.
AddressedProbe(url) ==
    IF \E n \in Services : Pathname(url) = TestPrefix \o <<n>>
    THEN Pathname(url)[Len(TestPrefix) + 1] ELSE "none"

\* The configuration each probe documents as required.
MissingConfiguration(name) ==
    CASE name = "mongodb"     -> "MONGODB_URI" \notin prbEnv
      [] name = "ghl"         -> {"GHL_API_KEY", "GHL_LOCATION_ID"} \ prbEnv # {}
      [] name = "openai"      -> "OPENAI_API_KEY" \notin prbEnv
      [] name = "anthropic"   -> {"ANTHROPIC_API_KEY", "CLAUDE_API_KEY"} \cap prbEnv = {}
      [] name = "pinecone"    -> "PINECONE_API_KEY" \notin prbEnv
      [] name = "woocommerce" -> {"WC_CONSUMER_KEY", "WC_CONSUMER_SECRET"} \ prbEnv # {}

\* C11: a probe that runs with a required configuration value missing
\* returns success=false with an error message, does not throw, and issues
\* no network request.
C11_MissingConfigFailsWithoutNetwork ==
    \A r \in 1..MaxReq :
        LET q == prbReq[r] IN
        (q.dispatched \in Services /\ MissingConfiguration(q.dispatched))
            => /\ q.phase = "done"
               /\ ~q.success /\ q.hasError /\ ~q.hasData
               /\ ~q.caught
               /\ q.calls = 0

C11_Witness ==
    \E r \in 1..MaxReq :
        /\ prbReq[r].dispatched = "ghl"
        /\ "GHL_API_KEY" \in prbEnv /\ "GHL_LOCATION_ID" \notin prbEnv
        /\ prbReq[r].phase = "done" /\ prbReq[r].error = "not configured"

\* C12: a name that is no registered probe is answered with success=false
\* and an error calling it unknown, and every URL that addresses a
\* registered probe is dispatched to that probe.
C12_DispatchByProbeName ==
    \A r \in 1..MaxReq :
        LET q == prbReq[r] IN
        q.phase \in {"upstream", "done"}
            => IF AddressedProbe(q.url) = "none"
               THEN q.phase = "done" /\ ~q.success /\ q.error = "Unknown service"
               ELSE q.dispatched = AddressedProbe(q.url)

\* C13: a probe never throws and always ends with a result: data is present
\* exactly when success is true, an error otherwise, and a probe waiting for
\* an upstream request eventually returns.
C13_ProbeAlwaysReturnsResult ==
    /\ [](\A r \in 1..MaxReq :
            LET q == prbReq[r] IN
            q.phase = "done"
               => /\ ~q.caught
                  /\ q.hasData <=> q.success
                  /\ q.hasError <=> ~q.success)
    /\ \A r \in 1..MaxReq :
          (prbReq[r].phase = "upstream") ~> (prbReq[r].phase = "done")

C13_Witness ==
    \E r \in 1..MaxReq :
        /\ prbReq[r].dispatched = "pinecone"
        /\ prbReq[r].phase = "done" /\ prbReq[r].calls = 2
        /\ prbReq[r].error = "connection error"

(***************************************************************************)
(* Claims about the inventory endpoints of the native server.              *)
(***************************************************************************)
\* The parsed body of an answered /api/inventory/check request.
InvParsed(q) ==
    IF q.body = EmptyBody THEN InvBody(FALSE, <<>>, FALSE, <<>>)
    ELSE JSONParse(q.body)

InvChecked(q) ==
    /\ q.route = "POST /api/inventory/check" /\ q.phase = "done"
    /\ (q.body = EmptyBody \/ JSONParseOk(q.body))

SameIgnoringCase(a, b) == ToUpperCase(a) = ToUpperCase(b)

\* C15 (as claimed): for a body with sku the answer is exactly the item
\* whose sku equals it ignoring case; for a body with category and no sku,
\* exactly the items whose category equals it; for an empty body, all
\* items; count is the number of returned items.
C15_InventoryCheckAsClaimed ==
    \A r \in 1..MaxReq :
        LET q == invReq[r]
            v == InvParsed(q)
        IN  InvChecked(q)
               => /\ q.status = 200
                  /\ q.count = Cardinality(q.data)
                  /\ q.data = IF v.hasSku
                              THEN { i \in ObjectValues(inventory) : SameIgnoringCase(i.sku, v.sku) }
                              ELSE IF v.hasCategory
                              THEN { i \in ObjectValues(inventory) : i.category = v.category }
                              ELSE ObjectValues(inventory)

\* C15 (amended): a non-empty string sku selects exactly the item whose sku
\* equals it ignoring case; without a sku (absent or empty), a non-empty
\* category selects exactly the items whose category equals the category in
\* upper case; with neither, all items; count is the number of returned
\* items.
C15_InventoryCheckUpperCased ==
    \A r \in 1..MaxReq :
        LET q == invReq[r]
            v == InvParsed(q)
            noSku == ~v.hasSku \/ v.sku = <<>>
            noCategory == ~v.hasCategory \/ v.category = <<>>
        IN  (InvChecked(q) /\ (noSku \/ v.skuIsString))
               => /\ q.status = 200
                  /\ q.count = Cardinality(q.data)
                  /\ q.data = IF ~noSku
                              THEN { i \in ObjectValues(inventory) : SameIgnoringCase(i.sku, v.sku) }
                              ELSE IF ~noCategory
                              THEN { i \in ObjectValues(inventory) :
                                        i.category = ToUpperCase(v.category) }
                              ELSE ObjectValues(inventory)

C15_Witness ==
    \E r, s \in 1..MaxReq :
        /\ InvChecked(invReq[r])
        /\ InvParsed(invReq[r]).category = <<"f", "b", "s">>
        /\ invReq[r].count = 2
        /\ InvChecked(invReq[s])
        /\ InvParsed(invReq[s]).sku = <<"f", "b", "s", "-", "0", "0", "1">>
        /\ invReq[s].count = 1

\* C16: GET /api/inventory/low-stock returns exactly the inventory items with
\* needs_reorder true or stock_status LOW, and no other item.
C16_LowStockExactlyFlagged ==
    \A r \in 1..MaxReq :
        LET q == invReq[r] IN
        (q.route = "GET /api/inventory/low-stock" /\ q.phase = "done")
            => /\ q.status = 200
               /\ \A i \in ObjectValues(inventory) :
                     i \in q.data <=> (i.needs_reorder \/ i.stock_status = "LOW")
               /\ q.data \subseteq ObjectValues(inventory)

C16_Witness ==
    \E r \in 1..MaxReq :
        /\ invReq[r].route = "GET /api/inventory/low-stock"
        /\ invReq[r].phase = "done"
        /\ invReq[r].count = 2

(***************************************************************************)
(* Claims about /health, /metrics and /api/v1 of the secure server.        *)
(***************************************************************************)
ProtectedRoutes == { "GET /metrics", "GET /api/v1/contacts", "GET /api/v1/other" }

\* The request carries a configured key in its header or its query.
CarriesValidKey(cred) ==
    \/ cred.header.kind = "string" /\ cred.header.text \in apiKeys
    \/ cred.query.kind = "string" /\ cred.query.text \in apiKeys

\* The key the server reads (the header before the query) is a configured key.
Authorised(cred) ==
    LET apiKey == IF cred.header.kind # "none" THEN cred.header ELSE cred.query
    IN  apiKey.kind = "string" /\ apiKey.text \in apiKeys

\* C18: the /metrics handler and every /api/v1 route run only for requests
\* that carry a configured API key; every other request is answered 401.
C18_ApiKeyOr401 ==
    \A r \in 1..MaxReq :
        LET q == apiReq[r] IN
        (q.phase = "done" /\ q.route \in ProtectedRoutes
                          /\ ~CarriesValidKey(q.cred))
            => q.status = 401 /\ ~q.handled

\* C19: GET /health answers 200 when the database health is healthy and no
\* circuit breaker is unhealthy, and 503 otherwise; an authorised
\* GET /metrics answers with the circuit-breaker and process metrics.
C19_HealthAndMetrics ==
    \A r \in 1..MaxReq :
        LET q == apiReq[r] IN
        q.phase = "done"
            => /\ q.route = "GET /health"
                    => IF q.mongo = "healthy"
                       THEN q.status = 200 /\ q.body = "healthy"
                       ELSE q.status = 503
               /\ (q.route = "GET /metrics" /\ Authorised(q.cred))
                    => q.status = 200 /\ q.body = "metrics"

(***************************************************************************)
(* Claims about the comprehensive error handler (ErrorsSpec).             *)
(***************************************************************************)
\* A request the error handler has answered.
ErrAnswered(q) == q.phase = "done"

\* C21: categorizeError gives each category one fixed status and that
\* category's registered message: two answered errors of the same category
\* have the same status code, and the message of every answer is
\* UserMessages of the answer's category.
C21_CategoryFixesStatusAndMessage ==
    /\ \A r, s \in 1..MaxReq :
          ErrAnswered(errReq[r]) /\ ErrAnswered(errReq[s])
            /\ errReq[r].type = errReq[s].type
          => errReq[r].status = errReq[s].status
    /\ \A r \in 1..MaxReq :
          ErrAnswered(errReq[r])
          => errReq[r].message = UserMessages[errReq[r].type]

\* C22: every 429 answer of the error handler carries a retryAfter value,
\* also for a RateLimitError thrown by application code.
C22_Every429HasRetryAfter ==
    \A r \in 1..MaxReq :
        ErrAnswered(errReq[r]) /\ errReq[r].status = 429
        => errReq[r].retryAfter # 0

\* C23: in production mode no 500 response carries the error's internal
\* message, stack or details: neither an answer of the comprehensive error
\* handler nor an answer of the integration server.
C23_No500LeakInProduction ==
    /\ \A r \in 1..MaxReq :
          errEnv = "production" /\ ErrAnswered(errReq[r]) /\ errReq[r].status = 500
          => ~errReq[r].details /\ ~errReq[r].stack
    /\ \A r \in 1..MaxReq :
          intEnv = "production" /\ intReq[r].phase = "done" /\ intReq[r].status = 500
          => ~intReq[r].errorMessage

\* C24: the inventory table is read-only at run time: whatever requests
\* were handled, also interleaved ones, the inventory object equals its
\* seed, and every key is the sku of the item under it.
C24_InventoryReadOnly ==
    /\ invInventory = inventory
    /\ \A k \in DOMAIN invInventory : invInventory[k].sku = k

\* A check request that found an item and a low-stock request that found
\* the two flagged items have both been answered.
C24_Witness ==
    /\ \E r \in 1..MaxReq :
          /\ invReq[r].route = "POST /api/inventory/check"
          /\ invReq[r].phase = "done" /\ invReq[r].count = 1
    /\ \E r \in 1..MaxReq :
          /\ invReq[r].route = "GET /api/inventory/low-stock"
          /\ invReq[r].phase = "done" /\ invReq[r].count = 2
    /\ DOMAIN invInventory # {}

(***************************************************************************)
(* Claims about the stores of the enrichment server (EnrichSpec).         *)
(***************************************************************************)
\* C25: handling requests leaves the module-level stores as they were at
\* start: the webhook store and the enrichment store stay empty.
C25_StoresKeepInitialValue ==
    /\ webhookStore = <<>>
    /\ enrichmentStore = <<>>

\* C27: 24-hour re-enrichment protection: no two enrichment records of the
\* same contact id are created less than 24 hours apart.
C27_NoReEnrichmentWithin24Hours ==
    \A i, j \in DOMAIN enrichmentStore :
        (i < j /\ enrichmentStore[i].contact_id = enrichmentStore[j].contact_id)
        => enrichmentStore[j].enriched_at - enrichmentStore[i].enriched_at >= 24

(***************************************************************************)
(* Claims about route dispatch and GET /api/ghl/contacts (RoutingSpec).   *)
(***************************************************************************)
\* The routes the server announces: the method and the paths of a handler.
RegisteredMethod(handler) ==
    IF handler \in { "createContact", "inventoryCheck" } THEN "POST" ELSE "GET"

RegisteredPaths(handler) ==
    CASE handler = "health" -> { HealthPath }
      [] handler = "test" -> { TestPath \o <<s>> : s \in Services }
      [] handler \in { "getContacts", "createContact" } -> { ContactsPath }
      [] handler = "opportunities" -> { OpportunitiesPath }
      [] handler = "tasks" -> { TasksPath }
      [] handler = "stats" -> { StatsPath }
      [] handler = "inventoryCheck" -> { InventoryCheckPath }
      [] handler = "lowStock" -> { LowStockPath }
      [] OTHER -> {}

\* A request that a route's handler, not the preflight answer or the 404
\* fallthrough, has taken.
RteRouted(q) ==
    q.phase # "idle" /\ q.handler \notin { "preflight", "notFound" }

\* C26: dispatch is by method and exact path: a request is taken by a
\* handler only if its method is the route's method and its path one of the
\* route's paths, and the handler is the one the URL without its query
\* string gets.
C26_ExactMethodAndPathDispatch ==
    \A r \in 1..MaxReq :
        LET q == rteReq[r]
        IN  /\ RteRouted(q)
               => /\ q.method = RegisteredMethod(q.handler)
                  /\ q.url.path \in RegisteredPaths(q.handler)
            /\ (q.phase # "idle" /\ q.method # "OPTIONS")
               => q.handler = Dispatch(q.method, Url(q.url.path, <<>>))

\* A GET /api/ghl/contacts request that makeGHLRequest answered with success.
RteContactsSucceeded(q) ==
    q.handler = "getContacts" /\ q.phase \in { "done", "abandoned" } /\ q.headSent = 200

\* C28: GET /api/ghl/contacts forwards a limit that is a number, at most
\* 100 and the requested limit when that is at most 100, and answers a
\* successful upstream call with a complete response whose data is a list
\* and whose total, limit and offset are numbers.
C28_LimitCappedAndListAnswer ==
    \A r \in 1..MaxReq :
        LET q == rteReq[r]
        IN  /\ (q.handler = "getContacts" /\ q.phase # "idle")
               => /\ ~q.forwarded.nan
                  /\ q.forwarded.n <= 100
                  /\ (~q.limit.nan /\ q.limit.n <= 100) => q.forwarded = q.limit
            /\ RteContactsSucceeded(q)
               => /\ q.ended /\ q.success
                  /\ q.dataIsList /\ q.totalIsNumber
                  /\ ~q.limit.nan /\ ~q.offset.nan

(***************************************************************************)
(* Claim about the start of the secure server (SecureSpec).               *)
(***************************************************************************)
\* C30: the secure server listens only after connectMongoDB and
\* connectRedis have both completed successfully, and when connecting
\* fails the process has exited with code 1 (and so never listens).
C30_ListenOnlyAfterConnect ==
    /\ secProc \in { "listening", "exited0" }
       => secDb.mongodb = "connected" /\ secDb.redis = "done"
    /\ secDb.mongodb = "failed" => secProc = "exited1"

\* The server listens, both connections made, and has answered a request.
C30_Witness ==
    /\ secProc = "listening"
    /\ secDb = [mongodb |-> "connected", redis |-> "done"]
    /\ \E r \in 1..MaxReq : secReq[r].phase = "done"

====
